---- MODULE Spec2Model ----
(***************************************************************************)
(* In-memory exercise catalog of fittality-exercises-mcp.                  *)
(*                                                                         *)
(* The repository carries three implementations of the catalog core:       *)
(*   "A"  class ExerciseService, array scans   (src/unnamed/part_009)      *)
(*   "B"  class ExerciseService, id indexes    (src/unnamed/part_010)      *)
(*   "F"  exercise-functions module            (src/unnamed/part_001..003, *)
(*        src/src/exercise-functions/*.ts)                                 *)
(* A process runs one of them (variable impl).  Strings are sequences of   *)
(* characters so that toLowerCase(), includes() and === are distinct.      *)
(***************************************************************************)
EXTENDS Integers, Sequences, FiniteSets, TLC

VARIABLES source, impl, svcA, svcB, fnMod, initCalls, result, sse, auth, oauth,
          calls

vars == <<source, impl, svcA, svcB, fnMod, initCalls, result, sse, auth, oauth,
          calls>>

(***************************************************************************)
(* Bounds                                                                  *)
(***************************************************************************)
MaxLen == 3

MaxInitCalls == 2

(***************************************************************************)
(* Strings                                                                 *)
(***************************************************************************)
Lower(c) ==
  CASE c = "A" -> "a"
    [] c = "B" -> "b"
    [] OTHER -> c

Code(c) ==
  CASE c = "A" -> 65
    [] c = "B" -> 66
    [] c = "a" -> 97
    [] c = "b" -> 98
    [] OTHER -> 0

toLowerCase(s) == [i \in DOMAIN s |-> Lower(s[i])]

includes(s, t) ==
  \E i \in 0..(Len(s) - Len(t)) : SubSeq(s, i + 1, i + Len(t)) = t

EqIgnoreCase(s, t) == toLowerCase(s) = toLowerCase(t)

(* String.prototype.trim: the white space at both ends removed *)
RECURSIVE trim(_)
trim(s) ==
  IF s = <<>> THEN s
  ELSE IF Head(s) = " " THEN trim(Tail(s))
  ELSE IF s[Len(s)] = " " THEN trim(SubSeq(s, 1, Len(s) - 1))
  ELSE s

IncludesIgnoreCase(s, t) == includes(toLowerCase(s), toLowerCase(t))

StrLess(s, t) ==
  \/ \E i \in 1..Len(s) :
        /\ i <= Len(t)
        /\ \A j \in 1..(i - 1) : s[j] = t[j]
        /\ Code(s[i]) < Code(t[i])
  \/ /\ Len(s) < Len(t)
     /\ \A j \in 1..Len(s) : s[j] = t[j]

RECURSIVE SortedKeys(_)
SortedKeys(S) ==
  IF S = {} THEN <<>>
  ELSE LET m == CHOOSE x \in S : \A y \in S \ {x} : StrLess(x, y)
       IN  <<m>> \o SortedKeys(S \ {m})

Range(s) == {s[i] : i \in DOMAIN s}

Min(a, b) == IF a < b THEN a ELSE b

Max(a, b) == IF a < b THEN b ELSE a

(* Array.prototype.slice(start, end) with negative and out-of-range indexes *)
slice(s, start, end) ==
  LET n  == Len(s)
      from == IF start < 0 THEN Max(n + start, 0) ELSE Min(start, n)
      to   == IF end < 0 THEN Max(n + end, 0) ELSE Min(end, n)
  IN  IF from >= to THEN <<>> ELSE SubSeq(s, from + 1, to)

(***************************************************************************)
(* Optional values: <<>> is undefined, <<v>> is the value v                *)
(***************************************************************************)
Undefined == <<>>

Some(v) == <<v>>

IsDefined(o) == o # <<>>

OrDefault(o, d) == IF o = <<>> THEN d ELSE o[1]

(***************************************************************************)
(* Raw records of the data file                                            *)
(***************************************************************************)
sa == <<"a">>

sb == <<"b">>

sA == <<"A">>

sB == <<"B">>

sab == <<"a", "b">>

sSpace == <<" ">>

UUIDs == {"u1", "u2", "u3", "u9"}

(* z.string().uuid() of ExerciseSchema; isValidUUID of utils *)
IsUUID(id) == id \in UUIDs

Rec(id, name, eq, cat, apple, body, pm, sm, ins) ==
  [id |-> id, name |-> name, equipment |-> eq, category |-> cat,
   appleCategory |-> apple, bodyPart |-> body, primaryMuscles |-> pm,
   secondaryMuscles |-> sm, instructions |-> ins]

r1 == Rec("u1", sab, sb, sa, sa, sa, <<sa>>, <<sab>>, <<sa>>)

r2 == Rec("u2", sb, sab, sA, sb, sb, <<sa, sb>>, <<>>, <<sb>>)

r3 == Rec("u1", sa, sB, sb, sa, sb, <<sb>>, <<sa>>, <<sab>>)

r4 == Rec("not-a-uuid", sa, sa, sa, sa, sa, <<sa>>, <<>>, <<sa>>)

RawPool == {r1, r2, r3, r4}

RECURSIVE SeqsUpTo(_, _)
SeqsUpTo(S, n) ==
  IF n = 0 THEN {<<>>}
  ELSE LET prev == SeqsUpTo(S, n - 1)
       IN  prev \cup {Append(s, x) : s \in {p \in prev : Len(p) = n - 1}, x \in S}

(* the data files: no record is listed twice, two different records may  *)
(* carry the same id                                                       *)
Sources ==
  {s \in SeqsUpTo(RawPool, MaxLen) : \A i, j \in DOMAIN s : s[i] = s[j] => i = j}

(***************************************************************************)
(* Maps (JS Map<string, T[]>)                                              *)
(***************************************************************************)
EmptyMap == [k \in {} |-> <<>>]

MapGet(m, k) == IF k \in DOMAIN m THEN m[k] ELSE <<>>

MapPush(m, k, v) ==
  IF k \in DOMAIN m THEN [m EXCEPT ![k] = Append(@, v)]
  ELSE m @@ (k :> <<v>>)

MapSet(m, k, v) ==
  IF k \in DOMAIN m THEN [m EXCEPT ![k] = v]
  ELSE m @@ (k :> v)

RECURSIVE PushAll(_, _, _)
PushAll(m, keys, v) ==
  IF keys = <<>> THEN m
  ELSE PushAll(MapPush(m, Head(keys), v), Tail(keys), v)

(***************************************************************************)
(* Arguments and results of the operations                                 *)
(***************************************************************************)
Params(eq, cat, body, apple, pm, sm, q, limit, offset) ==
  [equipment |-> eq, category |-> cat, bodyPart |-> body,
   appleCategory |-> apple, primaryMuscles |-> pm, secondaryMuscles |-> sm,
   query |-> q, limit |-> limit, offset |-> offset]

EmptyParams ==
  Params(<<>>, <<>>, <<>>, <<>>, <<>>, <<>>, <<>>, Undefined, Undefined)

NoArgs ==
  [id |-> "", ids |-> <<>>, params |-> EmptyParams, key |-> <<>>,
   targetMuscles |-> Undefined, readOk |-> TRUE]

NoResult ==
  [op |-> "none", status |-> "none", error |-> "none", args |-> NoArgs,
   exercises |-> <<>>, total |-> 0, limit |-> 0, offset |-> 0,
   hasMore |-> FALSE, valid |-> <<>>, invalid |-> <<>>, keys |-> <<>>,
   stats |-> <<>>]

Failure(op, args, err) ==
  [NoResult EXCEPT !.op = op, !.args = args, !.status = "error", !.error = err]

Page(op, args, items, total, limit, offset, hasMore) ==
  [NoResult EXCEPT !.op = op, !.args = args, !.status = "ok",
                   !.exercises = items, !.total = total, !.limit = limit,
                   !.offset = offset, !.hasMore = hasMore]

List(op, args, items) ==
  [NoResult EXCEPT !.op = op, !.args = args, !.status = "ok",
                   !.exercises = items, !.total = Len(items)]

(***************************************************************************)
(* Schemas (src/src/types.ts)                                              *)
(***************************************************************************)
DefaultLimit == 20

MaxLimit == 100

DefaultAlternativesLimit == 10

(* ExerciseSchema.parse succeeds: every raw record of RawPool has all     *)
(* fields with the right types, so only the uuid() check can fail.        *)
ExerciseSchemaOk(raw) == IsUUID(raw.id)

(* SearchParamsSchema.parse: limit int, positive, max(100), default(20);  *)
(* offset int, min(0), default(0)                                         *)
SearchParamsSchemaOk(p) ==
  /\ IsDefined(p.limit) => (p.limit[1] > 0 /\ p.limit[1] <= MaxLimit)
  /\ IsDefined(p.offset) => p.offset[1] >= 0

SearchParamsSchemaParse(p) ==
  [p EXCEPT !.limit = Some(OrDefault(p.limit, DefaultLimit)),
            !.offset = Some(OrDefault(p.offset, 0))]

(***************************************************************************)
(* Helpers of utils.ts (both versions of the file are absent from the     *)
(* sources; their behaviour is taken from the specification, sections 4.4  *)
(* to 4.6)                                                                 *)
(***************************************************************************)
isValidUUID(id) == IsUUID(id)

(* substring match, case-insensitive; the edit-distance branch needs a    *)
(* similarity above 0.7, which two different strings shorter than four    *)
(* characters never reach                                                  *)
fuzzyMatch(text, query) == IncludesIgnoreCase(text, query)

AllMuscles(ex) == ex.primaryMuscles \o ex.secondaryMuscles

calculateRelevanceScore(ex, query) ==
  IF query = <<>> THEN 0
  ELSE (IF EqIgnoreCase(ex.name, query) THEN 100
        ELSE IF IncludesIgnoreCase(ex.name, query) THEN 50 ELSE 0)
     + (IF IncludesIgnoreCase(ex.category, query) THEN 30 ELSE 0)
     + (IF IncludesIgnoreCase(ex.equipment, query) THEN 25 ELSE 0)
     + (IF \E m \in Range(AllMuscles(ex)) : IncludesIgnoreCase(m, query)
        THEN 20 ELSE 0)
     + (IF \E i \in Range(ex.instructions) : IncludesIgnoreCase(i, query)
        THEN 10 ELSE 0)

scoreExerciseRelevance(ex, query) == calculateRelevanceScore(ex, query)

paginateArray(items, offset, limit) ==
  LET page == slice(items, offset, offset + limit)
  IN  [items |-> page, total |-> Len(items),
       hasMore |-> offset + Len(page) < Len(items)]

hasCommonElements(a, b) ==
  \E x \in Range(a) : \E y \in Range(b) : EqIgnoreCase(x, y)

Count(S) == Cardinality(S)

calculateExerciseSimilarity(orig, ex) ==
    10 * Count({m \in Range(orig.primaryMuscles) :
                  \E x \in Range(ex.primaryMuscles) : EqIgnoreCase(x, m)})
  + 5 * Count({m \in Range(orig.primaryMuscles) :
                  \E x \in Range(ex.secondaryMuscles) : EqIgnoreCase(x, m)})
  + 5 * Count({m \in Range(orig.secondaryMuscles) :
                  \E x \in Range(ex.primaryMuscles) : EqIgnoreCase(x, m)})
  + 3 * Count({m \in Range(orig.secondaryMuscles) :
                  \E x \in Range(ex.secondaryMuscles) : EqIgnoreCase(x, m)})
  + (IF ex.bodyPart = orig.bodyPart THEN 5 ELSE 0)
  + (IF ex.category = orig.category THEN 3 ELSE 0)
  + (IF ex.equipment = orig.equipment THEN 2 ELSE 0)

getUniqueValues(keys) == SortedKeys(Range(keys))

(***************************************************************************)
(* Array helpers                                                           *)
(***************************************************************************)
RECURSIVE Filter(_, _)
Filter(s, keep) ==
  IF s = <<>> THEN <<>>
  ELSE (IF Head(s) \in keep THEN <<Head(s)>> ELSE <<>>) \o Filter(Tail(s), keep)

(* Array.prototype.sort((a, b) => b.score - a.score): stable, descending  *)
RECURSIVE sortByScoreDesc(_)
sortByScoreDesc(s) ==
  IF s = <<>> THEN <<>>
  ELSE LET i == CHOOSE k \in 1..Len(s) :
                  /\ \A j \in 1..Len(s) : s[j].score <= s[k].score
                  /\ \A j \in 1..(k - 1) : s[j].score < s[k].score
       IN  <<s[i]>> \o sortByScoreDesc(SubSeq(s, 1, i - 1) \o SubSeq(s, i + 1, Len(s)))

Exercises(scored) == [i \in DOMAIN scored |-> scored[i].exercise]

Ids(exs) == [i \in DOMAIN exs |-> exs[i].id]

(***************************************************************************)
(* Inputs of the operations                                                *)
(***************************************************************************)
IdArgs == {"u1", "u2", "u9", "not-a-uuid"}

IdLists == SeqsUpTo(IdArgs, 2)

LimitArgs == {Undefined, Some(-1), Some(0), Some(1), Some(2), Some(101)}

OffsetArgs == {Undefined, Some(1), Some(MaxLen + 1)}

FilterArgs ==
  { EmptyParams,
    [EmptyParams EXCEPT !.equipment = sb],
    [EmptyParams EXCEPT !.primaryMuscles = <<sa>>],
    [EmptyParams EXCEPT !.query = sb],
    [EmptyParams EXCEPT !.query = sSpace],
    [EmptyParams EXCEPT !.equipment = sb, !.primaryMuscles = <<sa>>],
    [EmptyParams EXCEPT !.query = sb, !.secondaryMuscles = <<sa>>] }

ParamsArgs ==
  {[f EXCEPT !.limit = l, !.offset = o] :
      f \in FilterArgs, l \in LimitArgs, o \in OffsetArgs}

KeyArgs == {sb, sB}

TargetMusclesArgs == {Undefined, Some(<<>>), Some(<<sb>>)}

EquipmentArgs == {<<>>, sb}

AltLimitArgs == {Undefined, Some(1)}

(***************************************************************************)
(* Implementation A: ExerciseService of src/unnamed/part_009               *)
(***************************************************************************)
A_new ==
  [exercises |-> <<>>, categoryIndex |-> EmptyMap, equipmentIndex |-> EmptyMap,
   muscleIndex |-> EmptyMap, bodyPartIndex |-> EmptyMap,
   appleCategoryIndex |-> EmptyMap, initialized |-> FALSE]

(* loadExerciseData: readOk is the outcome of readFile + JSON.parse +     *)
(* Array.isArray; invalid records are skipped; an empty result throws     *)
A_loadExerciseData(readOk) ==
  LET exercises == SelectSeq(source, ExerciseSchemaOk)
  IN  [ok |-> readOk /\ Len(exercises) # 0, exercises |-> exercises]

RECURSIVE A_indexByField(_, _, _)
A_indexByField(m, exs, field) ==
  IF exs = <<>> THEN m
  ELSE A_indexByField(MapPush(m, Head(exs)[field], Head(exs)), Tail(exs), field)

RECURSIVE A_indexByMuscle(_, _)
A_indexByMuscle(m, exs) ==
  IF exs = <<>> THEN m
  ELSE A_indexByMuscle(PushAll(m, AllMuscles(Head(exs)), Head(exs)), Tail(exs))

(* A_buildIndexes run over the raw records instead of the validated ones *)
A_buildIndexes_raw(exs) ==
  [categoryIndex |-> A_indexByField(EmptyMap, source, "category"),
   equipmentIndex |-> A_indexByField(EmptyMap, source, "equipment"),
   bodyPartIndex |-> A_indexByField(EmptyMap, source, "bodyPart"),
   appleCategoryIndex |-> A_indexByField(EmptyMap, source, "appleCategory"),
   muscleIndex |-> A_indexByMuscle(EmptyMap, source)]

(* buildIndexes: every map is cleared, then filled in catalog order *)
A_buildIndexes(exs) ==
  [categoryIndex |-> A_indexByField(EmptyMap, exs, "category"),
   equipmentIndex |-> A_indexByField(EmptyMap, exs, "equipment"),
   bodyPartIndex |-> A_indexByField(EmptyMap, exs, "bodyPart"),
   appleCategoryIndex |-> A_indexByField(EmptyMap, exs, "appleCategory"),
   muscleIndex |-> A_indexByMuscle(EmptyMap, exs)]

A_initialized(data) ==
  LET ix == A_buildIndexes(data)
  IN  [exercises |-> data, categoryIndex |-> ix.categoryIndex,
       equipmentIndex |-> ix.equipmentIndex, muscleIndex |-> ix.muscleIndex,
       bodyPartIndex |-> ix.bodyPartIndex,
       appleCategoryIndex |-> ix.appleCategoryIndex, initialized |-> TRUE]

(* A_matches that accepts an exercise when the equipment filter or the    *)
(* primary muscle filter matches, instead of both                          *)
A_matches_either(ex, p) ==
  \/ p.equipment # <<>> /\ IncludesIgnoreCase(ex.equipment, p.equipment)
  \/ /\ Len(p.primaryMuscles) > 0
     /\ \E muscle \in Range(p.primaryMuscles) :
           \E pm \in Range(ex.primaryMuscles) : IncludesIgnoreCase(pm, muscle)
  \/ p.equipment = <<>> /\ Len(p.primaryMuscles) = 0

A_matches(ex, p) ==
  /\ p.equipment # <<>> => IncludesIgnoreCase(ex.equipment, p.equipment)
  /\ p.category # <<>> => IncludesIgnoreCase(ex.category, p.category)
  /\ p.bodyPart # <<>> => IncludesIgnoreCase(ex.bodyPart, p.bodyPart)
  /\ p.appleCategory # <<>> =>
        IncludesIgnoreCase(ex.appleCategory, p.appleCategory)
  /\ Len(p.primaryMuscles) > 0 =>
        \E muscle \in Range(p.primaryMuscles) :
           \E pm \in Range(ex.primaryMuscles) : IncludesIgnoreCase(pm, muscle)
  /\ Len(p.secondaryMuscles) > 0 =>
        \E muscle \in Range(p.secondaryMuscles) :
           \E sm \in Range(ex.secondaryMuscles) : IncludesIgnoreCase(sm, muscle)
  /\ p.query # <<>> =>
        \/ fuzzyMatch(ex.name, p.query)
        \/ fuzzyMatch(ex.category, p.query)
        \/ fuzzyMatch(ex.equipment, p.query)
        \/ \E m \in Range(ex.primaryMuscles) : fuzzyMatch(m, p.query)
        \/ \E m \in Range(ex.secondaryMuscles) : fuzzyMatch(m, p.query)
        \/ \E inst \in Range(ex.instructions) : fuzzyMatch(inst, p.query)

(* the sorted sequence before pagination (lines 152-219) *)
A_sortedExercises(p) ==
  LET results == SelectSeq(svcA.exercises, LAMBDA ex : A_matches(ex, p))
      scoredResults ==
        [i \in DOMAIN results |->
           [exercise |-> results[i],
            score |-> calculateRelevanceScore(results[i], p.query)]]
  IN  Exercises(sortByScoreDesc(scoredResults))

A_args(p) == [NoArgs EXCEPT !.params = p]

A_searchExercises(p) ==
  IF ~svcA.initialized THEN Failure("searchExercises", A_args(p), "NotInitialized")
  ELSE IF ~SearchParamsSchemaOk(p)
  THEN Failure("searchExercises", A_args(p), "ZodError")
  ELSE LET v == SearchParamsSchemaParse(p)
           sortedExercises == A_sortedExercises(v)
           total == Len(sortedExercises)
           offset == v.offset[1]
           limit == v.limit[1]
           paginatedExercises == slice(sortedExercises, offset, offset + limit)
       IN  Page("searchExercises", A_args(p), paginatedExercises, total, limit,
                offset, offset + Len(paginatedExercises) < total)

A_idArgs(id) == [NoArgs EXCEPT !.id = id]

A_find(id) == SelectSeq(svcA.exercises, LAMBDA ex : ex.id = id)

A_getExerciseById(id) ==
  IF ~svcA.initialized THEN Failure("getExerciseById", A_idArgs(id), "NotInitialized")
  ELSE IF ~isValidUUID(id) \/ A_find(id) = <<>>
  THEN Failure("getExerciseById", A_idArgs(id), "ExerciseNotFoundError")
  ELSE List("getExerciseById", A_idArgs(id), <<Head(A_find(id))>>)

A_pageArgs(key, limit, offset) ==
  [NoArgs EXCEPT !.key = key, !.params.limit = limit, !.params.offset = offset]

(* A_paginate without ensureInitialized *)
A_paginate_unguarded(op, key, list, limitArg, offsetArg) ==
  LET limit == OrDefault(limitArg, DefaultLimit)
      offset == OrDefault(offsetArg, 0)
      total == Len(list)
      paginatedExercises == slice(list, offset, offset + limit)
  IN  Page(op, A_pageArgs(key, limitArg, offsetArg), paginatedExercises,
           total, limit, offset, offset + Len(paginatedExercises) < total)

(* the shared tail of the paginated getters: default parameters 20 and 0, *)
(* slice(offset, offset + limit), hasMore                                  *)
A_paginate(op, key, list, limitArg, offsetArg) ==
  IF ~svcA.initialized
  THEN Failure(op, A_pageArgs(key, limitArg, offsetArg), "NotInitialized")
  ELSE LET limit == OrDefault(limitArg, DefaultLimit)
           offset == OrDefault(offsetArg, 0)
           total == Len(list)
           paginatedExercises == slice(list, offset, offset + limit)
       IN  Page(op, A_pageArgs(key, limitArg, offsetArg), paginatedExercises,
                total, limit, offset, offset + Len(paginatedExercises) < total)

A_filterExercisesByEquipment(equipment, limit, offset) ==
  A_paginate("filterExercisesByEquipment", equipment,
             MapGet(svcA.equipmentIndex, equipment), limit, offset)

A_getExercisesByCategory(category, limit, offset) ==
  A_paginate("getExercisesByCategory", category,
             MapGet(svcA.categoryIndex, category), limit, offset)

A_getAllExercises(limit, offset) ==
  A_paginate("getAllExercises", <<>>, svcA.exercises, limit, offset)

RECURSIVE SumSeq(_)
SumSeq(s) == IF s = <<>> THEN 0 ELSE Head(s) + SumSeq(Tail(s))

A_overlap(muscles, primaryPts, secondaryPts, candidate) ==
  SumSeq([i \in DOMAIN muscles |->
            (IF \E pm \in Range(candidate.primaryMuscles) :
                  EqIgnoreCase(pm, muscles[i])
             THEN primaryPts ELSE 0)
          + (IF \E sm \in Range(candidate.secondaryMuscles) :
                  EqIgnoreCase(sm, muscles[i])
             THEN secondaryPts ELSE 0)])

(* A_similarity that scores every candidate alike *)
A_similarity_flat(originalExercise, candidate) == 0

(* the inline similarity score of findExerciseAlternatives (lines 331-370) *)
A_similarity(originalExercise, candidate) ==
    A_overlap(originalExercise.primaryMuscles, 10, 5, candidate)
  + A_overlap(originalExercise.secondaryMuscles, 5, 3, candidate)
  + (IF candidate.bodyPart = originalExercise.bodyPart THEN 5 ELSE 0)
  + (IF candidate.category = originalExercise.category THEN 3 ELSE 0)
  + (IF candidate.equipment = originalExercise.equipment THEN 2 ELSE 0)

A_altArgs(id, targetMuscles, equipment, limit) ==
  [NoArgs EXCEPT !.id = id, !.targetMuscles = targetMuscles, !.key = equipment,
                 !.params.limit = limit]

(* A_isCandidate without the filter of line 309 *)
A_isCandidate_keepsSelf(ex, exerciseId, musclesToMatch, equipment) ==
  /\ \E muscle \in Range(musclesToMatch) :
        \/ \E pm \in Range(ex.primaryMuscles) : IncludesIgnoreCase(pm, muscle)
        \/ \E sm \in Range(ex.secondaryMuscles) : IncludesIgnoreCase(sm, muscle)
  /\ equipment # <<>> => IncludesIgnoreCase(ex.equipment, equipment)

A_isCandidate(ex, exerciseId, musclesToMatch, equipment) ==
  /\ ex.id # exerciseId
  /\ \E muscle \in Range(musclesToMatch) :
        \/ \E pm \in Range(ex.primaryMuscles) : IncludesIgnoreCase(pm, muscle)
        \/ \E sm \in Range(ex.secondaryMuscles) : IncludesIgnoreCase(sm, muscle)
  /\ equipment # <<>> => IncludesIgnoreCase(ex.equipment, equipment)

A_findExerciseAlternatives(exerciseId, targetMuscles, equipment, limitArg) ==
  LET args == A_altArgs(exerciseId, targetMuscles, equipment, limitArg)
      found == A_getExerciseById(exerciseId)
  IN  IF found.status = "error"
      THEN Failure("findExerciseAlternatives", args, found.error)
      ELSE LET originalExercise == found.exercises[1]
               musclesToMatch ==
                 IF IsDefined(targetMuscles) /\ Len(targetMuscles[1]) > 0
                 THEN targetMuscles[1] ELSE originalExercise.primaryMuscles
               candidates ==
                 SelectSeq(svcA.exercises,
                           LAMBDA ex : A_isCandidate(ex, exerciseId,
                                                     musclesToMatch, equipment))
               scoredCandidates ==
                 [i \in DOMAIN candidates |->
                    [exercise |-> candidates[i],
                     score |-> A_similarity(originalExercise, candidates[i])]]
               limit == OrDefault(limitArg, DefaultAlternativesLimit)
           IN  List("findExerciseAlternatives", args,
                    Exercises(slice(sortByScoreDesc(scoredCandidates), 0, limit)))

A_idsArgs(ids) == [NoArgs EXCEPT !.ids = ids]

A_exists(id) == \E i \in DOMAIN svcA.exercises : svcA.exercises[i].id = id

(* A_validateExerciseKeys whose else branch pushes to valid *)
A_validateExerciseKeys_elseValid(exerciseIds) ==
  IF ~svcA.initialized
  THEN Failure("validateExerciseKeys", A_idsArgs(exerciseIds), "NotInitialized")
  ELSE [NoResult EXCEPT
          !.op = "validateExerciseKeys", !.args = A_idsArgs(exerciseIds),
          !.status = "ok",
          !.valid = SelectSeq(exerciseIds, isValidUUID),
          !.invalid = SelectSeq(exerciseIds, LAMBDA id : ~isValidUUID(id))]

A_validateExerciseKeys(exerciseIds) ==
  IF ~svcA.initialized
  THEN Failure("validateExerciseKeys", A_idsArgs(exerciseIds), "NotInitialized")
  ELSE [NoResult EXCEPT
          !.op = "validateExerciseKeys", !.args = A_idsArgs(exerciseIds),
          !.status = "ok",
          !.valid = SelectSeq(exerciseIds,
                              LAMBDA id : isValidUUID(id) /\ A_exists(id)),
          !.invalid = SelectSeq(exerciseIds,
                                LAMBDA id : ~(isValidUUID(id) /\ A_exists(id)))]

Getters ==
  {"getCategories", "getEquipmentTypes", "getMuscleGroups", "getBodyParts",
   "getAppleCategories"}

A_indexOf(getter) ==
  CASE getter = "getCategories" -> svcA.categoryIndex
    [] getter = "getEquipmentTypes" -> svcA.equipmentIndex
    [] getter = "getMuscleGroups" -> svcA.muscleIndex
    [] getter = "getBodyParts" -> svcA.bodyPartIndex
    [] getter = "getAppleCategories" -> svcA.appleCategoryIndex

(* getCategories ... getAppleCategories: Array.from(index.keys()).sort() *)
A_getKeys(getter) ==
  IF ~svcA.initialized THEN Failure(getter, NoArgs, "NotInitialized")
  ELSE [NoResult EXCEPT !.op = getter, !.status = "ok",
                        !.keys = SortedKeys(DOMAIN A_indexOf(getter))]

UniqueMuscles(exs, field) ==
  UNION {Range(exs[i][field]) : i \in DOMAIN exs}

A_getStats ==
  IF ~svcA.initialized THEN Failure("getStats", NoArgs, "NotInitialized")
  ELSE [NoResult EXCEPT
          !.op = "getStats", !.status = "ok",
          !.stats = <<Len(svcA.exercises),
                      Cardinality(DOMAIN svcA.categoryIndex),
                      Cardinality(DOMAIN svcA.equipmentIndex),
                      Cardinality(UniqueMuscles(svcA.exercises, "primaryMuscles")),
                      Cardinality(UniqueMuscles(svcA.exercises, "secondaryMuscles")),
                      Cardinality(DOMAIN svcA.bodyPartIndex),
                      Cardinality(DOMAIN svcA.appleCategoryIndex)>>]

(***************************************************************************)
(* Implementation B: ExerciseService of src/unnamed/part_010               *)
(***************************************************************************)
B_new ==
  [exercises |-> <<>>, exerciseIndex |-> EmptyMap, categoryIndex |-> EmptyMap,
   equipmentIndex |-> EmptyMap, primaryMuscleIndex |-> EmptyMap,
   secondaryMuscleIndex |-> EmptyMap, bodyPartIndex |-> EmptyMap,
   appleCategoryIndex |-> EmptyMap, isInitialized |-> FALSE]

(* new Set(array): insertion order, first occurrence kept *)
RECURSIVE SetOf(_)
SetOf(s) ==
  IF s = <<>> THEN <<>>
  ELSE LET r == SetOf(SubSeq(s, 1, Len(s) - 1))
       IN  IF s[Len(s)] \in Range(r) THEN r ELSE Append(r, s[Len(s)])

B_addToIndex(index, key, exerciseId) ==
  MapPush(index, toLowerCase(key), exerciseId)

RECURSIVE B_addAll(_, _, _)
B_addAll(index, keys, exerciseId) ==
  IF keys = <<>> THEN index
  ELSE B_addAll(B_addToIndex(index, Head(keys), exerciseId), Tail(keys), exerciseId)

(* buildIndexes: one pass over this.exercises, adding to the maps the     *)
(* service already holds                                                   *)
RECURSIVE B_buildIndexes(_, _)
B_buildIndexes(svc, exs) ==
  IF exs = <<>> THEN svc
  ELSE LET exercise == Head(exs)
       IN  B_buildIndexes(
             [svc EXCEPT
                !.exerciseIndex = MapSet(@, exercise.id, exercise),
                !.categoryIndex = B_addToIndex(@, exercise.category, exercise.id),
                !.equipmentIndex = B_addToIndex(@, exercise.equipment, exercise.id),
                !.bodyPartIndex = B_addToIndex(@, exercise.bodyPart, exercise.id),
                !.appleCategoryIndex =
                   B_addToIndex(@, exercise.appleCategory, exercise.id),
                !.primaryMuscleIndex =
                   B_addAll(@, exercise.primaryMuscles, exercise.id),
                !.secondaryMuscleIndex =
                   B_addAll(@, exercise.secondaryMuscles, exercise.id)],
             Tail(exs))

(* initialize, lines 47-58: readOk is the outcome of readFile + JSON.parse;*)
(* the map over the raw records throws at the first invalid one           *)
B_load(readOk) ==
  [ok |-> readOk /\ \A i \in DOMAIN source : ExerciseSchemaOk(source[i]),
   exercises |-> source]

B_initialized(data) ==
  [B_buildIndexes([svcB EXCEPT !.exercises = data], data)
     EXCEPT !.isInitialized = TRUE]

B_lookup(ids) ==
  LET present == SelectSeq(ids, LAMBDA id : id \in DOMAIN svcB.exerciseIndex)
  IN  [i \in DOMAIN present |-> svcB.exerciseIndex[present[i]]]

B_narrow(candidateIds, index, value) ==
  IF value = <<>> THEN candidateIds
  ELSE SetOf(Filter(MapGet(index, toLowerCase(value)), Range(candidateIds)))

B_muscleIds(index, muscles) ==
  UNION {Range(MapGet(index, toLowerCase(muscles[i]))) : i \in DOMAIN muscles}

B_narrowMuscles(candidateIds, index, muscles) ==
  IF Len(muscles) > 0 THEN Filter(candidateIds, B_muscleIds(index, muscles))
  ELSE candidateIds

(* the result sequence before pagination (lines 159-217) *)
B_searchResults(p) ==
  LET c0 == SetOf(Ids(svcB.exercises))
      c1 == B_narrow(c0, svcB.equipmentIndex, p.equipment)
      c2 == B_narrow(c1, svcB.categoryIndex, p.category)
      c3 == B_narrow(c2, svcB.bodyPartIndex, p.bodyPart)
      c4 == B_narrow(c3, svcB.appleCategoryIndex, p.appleCategory)
      c5 == B_narrowMuscles(c4, svcB.primaryMuscleIndex, p.primaryMuscles)
      c6 == B_narrowMuscles(c5, svcB.secondaryMuscleIndex, p.secondaryMuscles)
      candidates == B_lookup(c6)
      scored ==
        [i \in DOMAIN candidates |->
           [exercise |-> candidates[i],
            score |-> scoreExerciseRelevance(candidates[i], p.query)]]
  IN  IF p.query # <<>> /\ trim(p.query) # <<>>
      THEN Exercises(sortByScoreDesc(SelectSeq(scored, LAMBDA r : r.score > 0)))
      ELSE candidates

(* params.limit || 20 and params.offset || 0: undefined and 0 are falsy *)
B_orElse(o, d) == IF o = Undefined \/ o = Some(0) THEN d ELSE o[1]

B_page(op, args, list, limit, offset) ==
  IF ~svcB.isInitialized THEN Failure(op, args, "NotInitialized")
  ELSE LET r == paginateArray(list, offset, limit)
       IN  Page(op, args, r.items, r.total, limit, offset, r.hasMore)

B_searchExercises(p) ==
  B_page("searchExercises", A_args(p), B_searchResults(p),
         B_orElse(p.limit, DefaultLimit), B_orElse(p.offset, 0))

B_getAllExercises(limit, offset) ==
  B_page("getAllExercises", A_pageArgs(<<>>, limit, offset), svcB.exercises,
         OrDefault(limit, DefaultLimit), OrDefault(offset, 0))

B_filterByEquipment(equipment, limit, offset) ==
  B_page("filterByEquipment", A_pageArgs(equipment, limit, offset),
         B_lookup(MapGet(svcB.equipmentIndex, toLowerCase(equipment))),
         OrDefault(limit, DefaultLimit), OrDefault(offset, 0))

B_getByCategory(category, limit, offset) ==
  B_page("getByCategory", A_pageArgs(category, limit, offset),
         B_lookup(MapGet(svcB.categoryIndex, toLowerCase(category))),
         OrDefault(limit, DefaultLimit), OrDefault(offset, 0))

(* returns the exercise or null (an empty list here) *)
B_getExerciseById(id) ==
  IF ~svcB.isInitialized THEN Failure("getExerciseById", A_idArgs(id), "NotInitialized")
  ELSE List("getExerciseById", A_idArgs(id), B_lookup(<<id>>))

B_isAlternative(exercise, exerciseId, searchMuscles, equipment) ==
  /\ exercise.id # exerciseId
  /\ \/ hasCommonElements(exercise.primaryMuscles, searchMuscles)
     \/ hasCommonElements(exercise.secondaryMuscles, searchMuscles)
  /\ equipment = <<>> \/ toLowerCase(exercise.equipment) = toLowerCase(equipment)

B_findAlternatives(exerciseId, targetMuscles, equipment, limitArg) ==
  LET args == A_altArgs(exerciseId, targetMuscles, equipment, limitArg)
      found == B_getExerciseById(exerciseId)
  IN  IF found.status = "error" THEN Failure("findAlternatives", args, found.error)
      ELSE IF found.exercises = <<>> THEN Failure("findAlternatives", args, "NotFound")
      ELSE LET originalExercise == found.exercises[1]
               searchMuscles ==
                 IF IsDefined(targetMuscles) THEN targetMuscles[1]
                 ELSE originalExercise.primaryMuscles
               kept ==
                 SelectSeq(svcB.exercises,
                           LAMBDA ex : B_isAlternative(ex, exerciseId,
                                                       searchMuscles, equipment))
               scored ==
                 [i \in DOMAIN kept |->
                    [exercise |-> kept[i],
                     score |-> calculateExerciseSimilarity(originalExercise, kept[i])]]
               limit == OrDefault(limitArg, DefaultAlternativesLimit)
           IN  List("findAlternatives", args,
                    Exercises(slice(sortByScoreDesc(scored), 0, limit)))

B_validateExerciseIds(exerciseIds) ==
  IF ~svcB.isInitialized
  THEN Failure("validateExerciseIds", A_idsArgs(exerciseIds), "NotInitialized")
  ELSE [NoResult EXCEPT
          !.op = "validateExerciseIds", !.args = A_idsArgs(exerciseIds),
          !.status = "ok",
          !.valid = SelectSeq(exerciseIds,
                              LAMBDA id : id \in DOMAIN svcB.exerciseIndex),
          !.invalid = SelectSeq(exerciseIds,
                                LAMBDA id : id \notin DOMAIN svcB.exerciseIndex)]

B_keysOf(getter) ==
  CASE getter = "getCategories" -> DOMAIN svcB.categoryIndex
    [] getter = "getEquipmentTypes" -> DOMAIN svcB.equipmentIndex
    [] getter = "getMuscleGroups" ->
         DOMAIN svcB.primaryMuscleIndex \cup DOMAIN svcB.secondaryMuscleIndex
    [] getter = "getBodyParts" -> DOMAIN svcB.bodyPartIndex
    [] getter = "getAppleCategories" -> DOMAIN svcB.appleCategoryIndex

B_getKeys(getter) ==
  IF ~svcB.isInitialized THEN Failure(getter, NoArgs, "NotInitialized")
  ELSE [NoResult EXCEPT !.op = getter, !.status = "ok",
                        !.keys = SortedKeys(B_keysOf(getter))]

(* getExerciseStats: the count and the key lists; the lists are the       *)
(* getters' lists, so the result keeps their sizes                         *)
B_getExerciseStats ==
  IF ~svcB.isInitialized THEN Failure("getExerciseStats", NoArgs, "NotInitialized")
  ELSE [NoResult EXCEPT
          !.op = "getExerciseStats", !.status = "ok",
          !.stats = <<Len(svcB.exercises),
                      Cardinality(DOMAIN svcB.categoryIndex),
                      Cardinality(DOMAIN svcB.equipmentIndex),
                      Cardinality(DOMAIN svcB.primaryMuscleIndex),
                      Cardinality(DOMAIN svcB.secondaryMuscleIndex),
                      Cardinality(DOMAIN svcB.bodyPartIndex),
                      Cardinality(DOMAIN svcB.appleCategoryIndex)>>]

(***************************************************************************)
(* Implementation F: the exercise-functions module (loader.ts is           *)
(* src/unnamed/part_003, search.ts part_002, validation.ts part_001)       *)
(***************************************************************************)
MaxRequests == 1

MaxTimedRequests == 102

MaxSlowCalls == 1

Durations == {1, 2}

MaxSamples == 100

DefaultFnAlternativesLimit == 5

F_new ==
  [exerciseData |-> <<>>, isDataLoaded |-> FALSE, searchMetrics |-> <<>>,
   requestCount |-> 0]

(* loadExercises: exerciseData = parsed.exercises || parsed, unvalidated *)
F_loadExercises(readOk) == [ok |-> readOk, exercises |-> source]

F_getExerciseData == fnMod.exerciseData

F_getExerciseById(id) ==
  List("getExerciseById", A_idArgs(id),
       slice(SelectSeq(fnMod.exerciseData, LAMBDA ex : ex.id = id), 0, 1))

F_matches(exercise, criteria) ==
  /\ criteria.equipment # <<>> =>
        IncludesIgnoreCase(exercise.equipment, criteria.equipment)
  /\ criteria.category # <<>> =>
        \/ IncludesIgnoreCase(exercise.category, criteria.category)
        \/ IncludesIgnoreCase(exercise.appleCategory, criteria.category)
  /\ Len(criteria.primaryMuscles) > 0 =>
        \E muscle \in Range(criteria.primaryMuscles) :
           \E pm \in Range(exercise.primaryMuscles) : IncludesIgnoreCase(pm, muscle)
  /\ criteria.query # <<>> =>
        \/ IncludesIgnoreCase(exercise.name, criteria.query)
        \/ IncludesIgnoreCase(exercise.equipment, criteria.query)
        \/ IncludesIgnoreCase(exercise.category, criteria.query)
        \/ IncludesIgnoreCase(exercise.bodyPart, criteria.query)
        \/ \E m \in Range(AllMuscles(exercise)) : IncludesIgnoreCase(m, criteria.query)
        \/ \E ins \in Range(exercise.instructions) :
              IncludesIgnoreCase(ins, criteria.query)

(* searchExercises of search.ts: no offset, no total; the limit is        *)
(* applied only when it is a positive number                               *)
F_searchExercises(criteria) ==
  LET results == SelectSeq(F_getExerciseData, LAMBDA ex : F_matches(ex, criteria))
  IN  List("searchExercises", A_args(criteria),
           IF IsDefined(criteria.limit) /\ criteria.limit[1] > 0
           THEN slice(results, 0, criteria.limit[1]) ELSE results)

(* trackSearchTime that keeps the first 100 *)
trackSearchTime_keepsFirst(metrics, duration) ==
  LET pushed == Append(metrics, duration)
  IN  IF Len(pushed) > MaxSamples THEN slice(pushed, 0, MaxSamples)
      ELSE pushed

(* trackSearchTime: push, keep the last 100 *)
trackSearchTime(metrics, duration) ==
  LET pushed == Append(metrics, duration)
  IN  IF Len(pushed) > MaxSamples THEN slice(pushed, -MaxSamples, Len(pushed))
      ELSE pushed

F_filterByEquipment(equipment) ==
  List("filterByEquipment", A_pageArgs(equipment, Undefined, Undefined),
       SelectSeq(F_getExerciseData,
                 LAMBDA ex : IncludesIgnoreCase(ex.equipment, equipment)))

F_filterByCategory(category) ==
  List("filterByCategory", A_pageArgs(category, Undefined, Undefined),
       SelectSeq(F_getExerciseData,
                 LAMBDA ex : \/ IncludesIgnoreCase(ex.category, category)
                             \/ IncludesIgnoreCase(ex.appleCategory, category)))

F_overlap(exercise, targetExercise) ==
  Len(SelectSeq(exercise.primaryMuscles,
                LAMBDA muscle : \E t \in Range(targetExercise.primaryMuscles) :
                                   EqIgnoreCase(muscle, t)))

F_findAlternatives(exerciseId, limitArg) ==
  LET args == A_altArgs(exerciseId, Undefined, <<>>, limitArg)
      found == F_getExerciseById(exerciseId).exercises
  IN  IF found = <<>> THEN List("findAlternatives", args, <<>>)
      ELSE LET targetExercise == found[1]
               alternatives ==
                 SelectSeq(F_getExerciseData,
                           LAMBDA ex : /\ ex.id # exerciseId
                                       /\ F_overlap(ex, targetExercise) > 0)
               scored ==
                 [i \in DOMAIN alternatives |->
                    [exercise |-> alternatives[i],
                     score |-> F_overlap(alternatives[i], targetExercise)]]
           IN  List("findAlternatives", args,
                    Exercises(slice(sortByScoreDesc(scored), 0,
                                    OrDefault(limitArg, DefaultFnAlternativesLimit))))

F_validateExerciseIds(ids) ==
  [NoResult EXCEPT
     !.op = "validateExerciseIds", !.args = A_idsArgs(ids), !.status = "ok",
     !.valid = SelectSeq(ids, LAMBDA id : \E i \in DOMAIN F_getExerciseData :
                                             F_getExerciseData[i].id = id),
     !.invalid = SelectSeq(ids, LAMBDA id : \A i \in DOMAIN F_getExerciseData :
                                               F_getExerciseData[i].id # id)]

F_Getters == {"getExerciseCategories", "getEquipmentTypes", "getMuscleGroups", "getBodyParts"}

F_fieldValues(field) == {F_getExerciseData[i][field] : i \in DOMAIN F_getExerciseData}

(* metadata.ts: a Set of the field values, sorted *)
F_getKeys(getter) ==
  [NoResult EXCEPT
     !.op = getter, !.status = "ok",
     !.keys = SortedKeys(
        CASE getter = "getExerciseCategories" ->
               F_fieldValues("category") \cup F_fieldValues("appleCategory")
          [] getter = "getEquipmentTypes" -> F_fieldValues("equipment")
          [] getter = "getMuscleGroups" ->
               UniqueMuscles(F_getExerciseData, "primaryMuscles")
                 \cup UniqueMuscles(F_getExerciseData, "secondaryMuscles")
          [] getter = "getBodyParts" -> F_fieldValues("bodyPart"))]

(* Actions of implementation A.  A request is taken when no response is   *)
(* pending (result = NoResult); Deliver hands the response to the caller.  *)
Idle(i) == impl = i /\ result = NoResult

A_Initialize ==
  /\ Idle("A")
  /\ initCalls < MaxInitCalls
  /\ \E readOk \in BOOLEAN :
        LET data == A_loadExerciseData(readOk)
            args == [NoArgs EXCEPT !.readOk = readOk]
        IN  IF data.ok
            THEN /\ svcA' = A_initialized(data.exercises)
                 /\ result' = [NoResult EXCEPT !.op = "initialize",
                                               !.args = args, !.status = "ok"]
            ELSE /\ svcA' = svcA
                 /\ result' = Failure("initialize", args, "DataLoadError")
  /\ initCalls' = initCalls + 1
  /\ UNCHANGED <<calls, sse, auth, oauth, source, impl, svcB, fnMod>>

(* A_exercisesAfterSearch when results aliases this.exercises and the     *)
(* ranking sorts it in place                                               *)
A_exercisesAfterSearch_inPlace(p) ==
  IF svcA.initialized /\ SearchParamsSchemaOk(p) /\ p = [EmptyParams EXCEPT !.query = p.query, !.limit = p.limit, !.offset = p.offset]
  THEN Exercises(sortByScoreDesc(
         [i \in DOMAIN svcA.exercises |->
            [exercise |-> svcA.exercises[i],
             score |-> calculateRelevanceScore(svcA.exercises[i], p.query)]]))
  ELSE svcA.exercises

(* line 153 spreads this.exercises into a new array; filter, map and      *)
(* slice return new arrays and sort reorders scoredResults only           *)
A_exercisesAfterSearch(p) == svcA.exercises

A_SearchExercises ==
  /\ Idle("A")
  /\ \E p \in ParamsArgs :
        /\ result' = A_searchExercises(p)
        /\ svcA' = [svcA EXCEPT !.exercises = A_exercisesAfterSearch(p)]
  /\ UNCHANGED <<calls, sse, auth, oauth, source, impl, svcB, fnMod, initCalls>>

A_GetExerciseById ==
  /\ Idle("A")
  /\ \E id \in IdArgs : result' = A_getExerciseById(id)
  /\ UNCHANGED <<calls, sse, auth, oauth, source, impl, svcA, svcB, fnMod, initCalls>>

A_FilterExercisesByEquipment ==
  /\ Idle("A")
  /\ \E k \in KeyArgs, l \in LimitArgs, o \in OffsetArgs :
        result' = A_filterExercisesByEquipment(k, l, o)
  /\ UNCHANGED <<calls, sse, auth, oauth, source, impl, svcA, svcB, fnMod, initCalls>>

A_GetExercisesByCategory ==
  /\ Idle("A")
  /\ \E k \in KeyArgs, l \in LimitArgs, o \in OffsetArgs :
        result' = A_getExercisesByCategory(k, l, o)
  /\ UNCHANGED <<calls, sse, auth, oauth, source, impl, svcA, svcB, fnMod, initCalls>>

A_GetAllExercises ==
  /\ Idle("A")
  /\ \E l \in LimitArgs, o \in OffsetArgs : result' = A_getAllExercises(l, o)
  /\ UNCHANGED <<calls, sse, auth, oauth, source, impl, svcA, svcB, fnMod, initCalls>>

A_FindExerciseAlternatives ==
  /\ Idle("A")
  /\ \E id \in IdArgs, tm \in TargetMusclesArgs, eq \in EquipmentArgs,
        l \in AltLimitArgs :
        result' = A_findExerciseAlternatives(id, tm, eq, l)
  /\ UNCHANGED <<calls, sse, auth, oauth, source, impl, svcA, svcB, fnMod, initCalls>>

A_ValidateExerciseKeys ==
  /\ Idle("A")
  /\ \E ids \in IdLists : result' = A_validateExerciseKeys(ids)
  /\ UNCHANGED <<calls, sse, auth, oauth, source, impl, svcA, svcB, fnMod, initCalls>>

A_GetKeys ==
  /\ Idle("A")
  /\ \E g \in Getters : result' = A_getKeys(g)
  /\ UNCHANGED <<calls, sse, auth, oauth, source, impl, svcA, svcB, fnMod, initCalls>>

A_GetStats ==
  /\ Idle("A")
  /\ result' = A_getStats
  /\ UNCHANGED <<calls, sse, auth, oauth, source, impl, svcA, svcB, fnMod, initCalls>>

(* Actions of implementation B *)
B_Initialize ==
  /\ Idle("B")
  /\ initCalls < MaxInitCalls
  /\ \E readOk \in BOOLEAN :
        LET data == B_load(readOk)
            args == [NoArgs EXCEPT !.readOk = readOk]
        IN  IF data.ok
            THEN /\ svcB' = B_initialized(data.exercises)
                 /\ result' = [NoResult EXCEPT !.op = "initialize",
                                               !.args = args, !.status = "ok"]
            ELSE /\ svcB' = svcB
                 /\ result' = Failure("initialize", args, "Error")
  /\ initCalls' = initCalls + 1
  /\ UNCHANGED <<calls, sse, auth, oauth, source, impl, svcA, fnMod>>

B_SearchExercises ==
  /\ Idle("B")
  /\ \E p \in ParamsArgs : result' = B_searchExercises(p)
  /\ UNCHANGED <<calls, sse, auth, oauth, source, impl, svcA, svcB, fnMod, initCalls>>

B_GetAllExercises ==
  /\ Idle("B")
  /\ \E l \in LimitArgs, o \in OffsetArgs : result' = B_getAllExercises(l, o)
  /\ UNCHANGED <<calls, sse, auth, oauth, source, impl, svcA, svcB, fnMod, initCalls>>

B_GetExerciseById ==
  /\ Idle("B")
  /\ \E id \in IdArgs : result' = B_getExerciseById(id)
  /\ UNCHANGED <<calls, sse, auth, oauth, source, impl, svcA, svcB, fnMod, initCalls>>

B_FilterByEquipment ==
  /\ Idle("B")
  /\ \E k \in KeyArgs, l \in LimitArgs, o \in OffsetArgs :
        result' = B_filterByEquipment(k, l, o)
  /\ UNCHANGED <<calls, sse, auth, oauth, source, impl, svcA, svcB, fnMod, initCalls>>

B_GetByCategory ==
  /\ Idle("B")
  /\ \E k \in KeyArgs, l \in LimitArgs, o \in OffsetArgs :
        result' = B_getByCategory(k, l, o)
  /\ UNCHANGED <<calls, sse, auth, oauth, source, impl, svcA, svcB, fnMod, initCalls>>

(* filter, map and slice build new arrays from this.exercises and sort    *)
(* reorders the mapped array                                               *)
B_exercisesAfterFindAlternatives(id, tm, eq, l) == svcB.exercises

B_FindAlternatives ==
  /\ Idle("B")
  /\ \E id \in IdArgs, tm \in TargetMusclesArgs, eq \in EquipmentArgs,
        l \in AltLimitArgs :
        /\ result' = B_findAlternatives(id, tm, eq, l)
        /\ svcB' = [svcB EXCEPT
                      !.exercises = B_exercisesAfterFindAlternatives(id, tm, eq, l)]
  /\ UNCHANGED <<calls, sse, auth, oauth, source, impl, svcA, fnMod, initCalls>>

B_ValidateExerciseIds ==
  /\ Idle("B")
  /\ \E ids \in IdLists : result' = B_validateExerciseIds(ids)
  /\ UNCHANGED <<calls, sse, auth, oauth, source, impl, svcA, svcB, fnMod, initCalls>>

B_GetKeys ==
  /\ Idle("B")
  /\ \E g \in Getters : result' = B_getKeys(g)
  /\ UNCHANGED <<calls, sse, auth, oauth, source, impl, svcA, svcB, fnMod, initCalls>>

B_GetExerciseStats ==
  /\ Idle("B")
  /\ result' = B_getExerciseStats
  /\ UNCHANGED <<calls, sse, auth, oauth, source, impl, svcA, svcB, fnMod, initCalls>>

(* Actions of implementation F *)
F_LoadExercises ==
  /\ Idle("F")
  /\ initCalls < MaxInitCalls
  /\ \E readOk \in BOOLEAN :
        LET data == F_loadExercises(readOk)
            args == [NoArgs EXCEPT !.readOk = readOk]
        IN  IF data.ok
            THEN /\ fnMod' = [fnMod EXCEPT !.exerciseData = data.exercises,
                                           !.isDataLoaded = TRUE]
                 /\ result' = [NoResult EXCEPT !.op = "loadExercises",
                                               !.args = args, !.status = "ok"]
            ELSE /\ fnMod' = fnMod
                 /\ result' = Failure("loadExercises", args, "Error")
  /\ initCalls' = initCalls + 1
  /\ UNCHANGED <<calls, sse, auth, oauth, source, impl, svcA, svcB>>

F_ParamsArgs == {p \in ParamsArgs : p.offset = Undefined}

(* searchExercises of the function module: incrementRequestCount, the    *)
(* filters, trackSearchTime with the measured duration.  calls records the *)
(* durations of the searches since the last resetPerformanceMetrics; a     *)
(* search measures 1, or 2 for at most MaxSlowCalls of them.               *)
F_search(maxRequests, criteriaArgs) ==
  /\ Idle("F")
  /\ fnMod.requestCount < maxRequests
  /\ \E criteria \in criteriaArgs, duration \in Durations :
        /\ duration = 2 => Len(SelectSeq(calls, LAMBDA d : d = 2)) < MaxSlowCalls
        /\ result' = F_searchExercises(criteria)
        /\ fnMod' = [fnMod EXCEPT
                       !.requestCount = @ + 1,
                       !.searchMetrics = trackSearchTime(@, duration)]
        /\ calls' = Append(calls, duration)
  /\ UNCHANGED <<sse, auth, oauth, source, impl, svcA, svcB, initCalls>>

F_SearchExercises == F_search(MaxRequests, F_ParamsArgs)

(* the same call, repeated past the sample limit, without criteria *)
F_SearchExercisesTimed == F_search(MaxTimedRequests, {EmptyParams})

F_ResetPerformanceMetrics ==
  /\ Idle("F")
  /\ fnMod' = [fnMod EXCEPT !.requestCount = 0, !.searchMetrics = <<>>]
  /\ result' = [NoResult EXCEPT !.op = "resetPerformanceMetrics", !.status = "ok"]
  /\ calls' = <<>>
  /\ UNCHANGED <<sse, auth, oauth, source, impl, svcA, svcB, initCalls>>

F_GetExerciseById ==
  /\ Idle("F")
  /\ \E id \in IdArgs : result' = F_getExerciseById(id)
  /\ UNCHANGED <<calls, sse, auth, oauth, source, impl, svcA, svcB, fnMod, initCalls>>

F_FilterByEquipment ==
  /\ Idle("F")
  /\ \E k \in KeyArgs : result' = F_filterByEquipment(k)
  /\ UNCHANGED <<calls, sse, auth, oauth, source, impl, svcA, svcB, fnMod, initCalls>>

F_FilterByCategory ==
  /\ Idle("F")
  /\ \E k \in KeyArgs : result' = F_filterByCategory(k)
  /\ UNCHANGED <<calls, sse, auth, oauth, source, impl, svcA, svcB, fnMod, initCalls>>

F_FindAlternatives ==
  /\ Idle("F")
  /\ \E id \in IdArgs, l \in AltLimitArgs : result' = F_findAlternatives(id, l)
  /\ UNCHANGED <<calls, sse, auth, oauth, source, impl, svcA, svcB, fnMod, initCalls>>

F_ValidateExerciseIds ==
  /\ Idle("F")
  /\ \E ids \in IdLists : result' = F_validateExerciseIds(ids)
  /\ UNCHANGED <<calls, sse, auth, oauth, source, impl, svcA, svcB, fnMod, initCalls>>

F_GetKeys ==
  /\ Idle("F")
  /\ \E g \in F_Getters : result' = F_getKeys(g)
  /\ UNCHANGED <<calls, sse, auth, oauth, source, impl, svcA, svcB, fnMod, initCalls>>

(* the handler serialises the result (or the error) to the caller *)
Deliver ==
  /\ result # NoResult
  /\ result' = NoResult
  /\ UNCHANGED <<calls, sse, auth, oauth, source, impl, svcA, svcB, fnMod, initCalls>>

(***************************************************************************)
(* The SSE sessions of the HTTP servers: "index" is ExerciseMcpServer of   *)
(* src/src/index.ts (a transport per session id), "main" is the server of  *)
(* src/src/main.ts lines 378-633 (one current transport and a buffer of    *)
(* pending messages).  A session is named by the connection it belongs     *)
(* to; 0 stands for no transport.                                          *)
(***************************************************************************)
MaxSessions == 2

MaxPendingMessages == 2

MaxMessages == 3

MaxCountDrift == 0

Sessions == 1..MaxSessions

Messages == 1..MaxMessages

NoTransport == 0

(* the last POST /messages: whether the session it was for was open, its *)
(* outcome, and whether the transport of that session handled it           *)
NoPost == [open |-> FALSE, status |-> "none", own |-> FALSE]

(* a POST /messages request: whether it was buffered and how many times  *)
(* it was answered or handed to a transport                                *)
NoMessage == [buffered |-> FALSE, answers |-> 0]

SSE_new(server) ==
  [server |-> server, open |-> {}, transports |-> {},
   currentTransport |-> NoTransport, pendingMessages |-> <<>>,
   connectionCount |-> 0, post |-> NoPost,
   conn |-> [s \in Sessions |-> "none"],
   sent |-> 0, msgs |-> [m \in Messages |-> NoMessage], flushed |-> 0]

sseOthers == <<source, impl, svcA, svcB, fnMod, initCalls, result, auth, oauth,
               calls>>

(* index.ts, app.get('/sse'): the transport is stored under its session   *)
(* id before server.connect; when connect throws the response ends with    *)
(* 500 and its close event deletes the entry again                         *)
Index_SseOpen ==
  /\ sse.server = "index"
  /\ \E s \in Sessions \ sse.open, connected \in BOOLEAN :
        sse' = IF connected
               THEN [sse EXCEPT !.transports = @ \cup {s}, !.open = @ \cup {s}]
               ELSE sse
  /\ UNCHANGED sseOthers

(* index.ts, res.on('close') and res.on('error') *)
Index_SseClose ==
  /\ sse.server = "index"
  /\ \E s \in sse.open :
        sse' = [sse EXCEPT !.transports = @ \ {s}, !.open = @ \ {s}]
  /\ UNCHANGED sseOthers

(* index.ts, app.post('/messages'): the transport is looked up by the     *)
(* sessionId of the query                                                  *)
Index_PostMessage ==
  /\ sse.server = "index"
  /\ \E s \in Sessions :
        sse' = [sse EXCEPT !.post =
                  IF s \notin sse.transports
                  THEN [open |-> s \in sse.open, status |-> "400", own |-> FALSE]
                  ELSE [open |-> s \in sse.open, status |-> "handled",
                        own |-> TRUE]]
  /\ UNCHANGED sseOthers

(* each message of a list taken off the buffer is answered (400, 408 or   *)
(* 500) or handed to a transport                                           *)
Main_answerAll(msgs, taken) ==
  [m \in Messages |->
     IF m \in Range(taken) THEN [msgs[m] EXCEPT !.answers = @ + 1]
     ELSE msgs[m]]

(* main.ts, cleanup of a connection: the transport is dropped, the count  *)
(* decremented, the pending messages taken off the buffer and answered 400 *)
Main_cleanup(state) ==
  [state EXCEPT !.currentTransport = NoTransport,
                !.connectionCount = @ - 1,
                !.pendingMessages = <<>>,
                !.msgs = Main_answerAll(@, state.pendingMessages)]

(* main.ts, app.get("/sse") up to the await of server.connect: the count  *)
(* is incremented, the new transport replaces currentTransport, cleanup is *)
(* registered for 'close' and 'error' of the request                       *)
Main_SseOpen ==
  /\ sse.server = "main"
  /\ sse.connectionCount >= -MaxCountDrift
  /\ \E s \in Sessions :
        /\ sse.conn[s] = "none"
        /\ sse' = [sse EXCEPT !.connectionCount = @ + 1,
                              !.currentTransport = s,
                              !.conn[s] = "connecting"]
  /\ UNCHANGED sseOthers

(* main.ts, app.get("/sse") after server.connect resolved: the buffered   *)
(* messages are taken off the buffer and handed, in order, to              *)
(* currentTransport; handlePostMessage on a transport dropped in between   *)
(* throws and the message is answered 500; flushed is the number of        *)
(* messages this connection handed to its transport                        *)
Main_SseConnected ==
  /\ sse.server = "main"
  /\ \E s \in Sessions :
        /\ sse.conn[s] = "connecting"
        /\ sse' = [sse EXCEPT
                     !.conn[s] = "open",
                     !.open = @ \cup {s},
                     !.pendingMessages = <<>>,
                     !.flushed = IF sse.currentTransport = NoTransport THEN 0
                                 ELSE Len(sse.pendingMessages),
                     !.msgs = Main_answerAll(@, sse.pendingMessages)]
  /\ UNCHANGED sseOthers

(* main.ts, app.get("/sse"), catch: server.connect threw; the transport   *)
(* is dropped, the count decremented, the pending messages answered 500    *)
Main_SseConnectFailed ==
  /\ sse.server = "main"
  /\ \E s \in Sessions :
        /\ sse.conn[s] = "connecting"
        /\ sse' = [sse EXCEPT
                     !.conn[s] = "ended",
                     !.currentTransport = NoTransport,
                     !.connectionCount = @ - 1,
                     !.pendingMessages = <<>>,
                     !.msgs = Main_answerAll(@, sse.pendingMessages)]
  /\ UNCHANGED sseOthers

(* main.ts, req.on('error'): cleanup runs, the 'close' of the request is  *)
(* still to come                                                           *)
Main_SseError ==
  /\ sse.server = "main"
  /\ \E s \in Sessions :
        /\ sse.conn[s] = "open"
        /\ sse' = [Main_cleanup(sse) EXCEPT !.conn[s] = "ended",
                                            !.open = @ \ {s}]
  /\ UNCHANGED sseOthers

(* main.ts, req.on('close'): cleanup runs, whether the connection was     *)
(* open, had an error before, or was answered 500 by the catch             *)
Main_SseClose ==
  /\ sse.server = "main"
  /\ \E s \in Sessions :
        /\ sse.conn[s] \in {"open", "ended"}
        /\ sse' = [Main_cleanup(sse) EXCEPT !.conn[s] = "none",
                                            !.open = @ \ {s}]
  /\ UNCHANGED sseOthers

(* Main_expire that answers the expired messages and leaves them in the  *)
(* buffer                                                                  *)
Main_expire_keepsBuffered(state, k) ==
  [state EXCEPT
     !.msgs = Main_answerAll(@, SubSeq(state.pendingMessages, 1, k))]

(* the pending messages older than pendingMessageTimeout are answered 408 *)
(* and the rest kept (the oldest are first)                                *)
Main_expire(state, k) ==
  [state EXCEPT
     !.pendingMessages = SubSeq(@, k + 1, Len(@)),
     !.msgs = Main_answerAll(@, SubSeq(state.pendingMessages, 1, k))]

(* main.ts, the setInterval that cleans up expired pending messages *)
Main_ExpirePending ==
  /\ sse.server = "main"
  /\ \E k \in 1..Len(sse.pendingMessages) : sse' = Main_expire(sse, k)
  /\ UNCHANGED sseOthers

(* main.ts, app.post("/messages"): without a transport the message is     *)
(* buffered, or answered 503 when the buffer is full; otherwise it is      *)
(* handed to currentTransport                                              *)
Main_PostMessage ==
  /\ sse.server = "main"
  /\ sse.sent < MaxMessages
  /\ \E s \in Sessions :
        LET isOpen == s \in sse.open
            m == sse.sent + 1
            outcome ==
              IF sse.currentTransport = NoTransport
              THEN IF Len(sse.pendingMessages) >= MaxPendingMessages
                   THEN "503" ELSE "buffered"
              ELSE "handled"
        IN  sse' = [sse EXCEPT
                      !.sent = m,
                      !.pendingMessages =
                         IF outcome = "buffered" THEN Append(@, m) ELSE @,
                      !.msgs[m] =
                         [buffered |-> outcome = "buffered",
                          answers |-> IF outcome = "buffered" THEN 0 ELSE 1],
                      !.post = [open |-> isOpen, status |-> outcome,
                                own |-> sse.currentTransport = s]]
  /\ UNCHANGED sseOthers

(***************************************************************************)
(* The protected MCP endpoint: "part_005" is the server of                 *)
(* src/unnamed/part_005 (GET /mcp/sse behind AuthServer.authenticateToken),*)
(* "main" is src/src/main.ts lines 949-966.  Token 0 is a token the token  *)
(* endpoint never issues.                                                  *)
(***************************************************************************)
MaxTokens == 2

Tokens == 1..MaxTokens

AuthorizationHeaders == {Undefined} \cup {Some(t) : t \in 0..MaxTokens}

NoSseRequest ==
  [token |-> Undefined, valid |-> FALSE, status |-> "none", transport |-> FALSE]

AUTH_new(server) ==
  [server |-> server, accessTokens |-> {}, issued |-> {}, expired |-> {},
   request |-> NoSseRequest]

authOthers == <<source, impl, svcA, svcB, fnMod, initCalls, result, sse, oauth,
                calls>>

(* verifyToken of utils: the signature is the server's and the token is   *)
(* not expired                                                             *)
verifyToken(token) == token \in auth.issued /\ token \notin auth.expired

(* AuthServer.validateToken *)
validateToken(token) == verifyToken(token) /\ token \in auth.accessTokens

(* AuthServer token endpoint: the access token is generated and stored *)
Auth_IssueToken ==
  /\ \E t \in Tokens \ auth.issued :
        auth' = [auth EXCEPT !.accessTokens = @ \cup {t}, !.issued = @ \cup {t}]
  /\ UNCHANGED authOthers

(* the expiry time of a token passes *)
Auth_Expire ==
  /\ \E t \in auth.issued \ auth.expired :
        auth' = [auth EXCEPT !.expired = @ \cup {t}]
  /\ UNCHANGED authOthers

(* AuthServer.cleanupExpiredTokens *)
Auth_CleanupExpiredTokens ==
  /\ auth.accessTokens \cap auth.expired # {}
  /\ auth' = [auth EXCEPT !.accessTokens = @ \ auth.expired]
  /\ UNCHANGED authOthers

(* AuthServer.authenticateToken: 401 without a token or with one that     *)
(* validateToken rejects, next() otherwise                                 *)
authenticateToken(header) == IsDefined(header) /\ validateToken(header[1])

(* part_005, app.get('/mcp/sse', authServer.authenticateToken, ...) *)
Part005_McpSse ==
  /\ auth.server = "part_005"
  /\ \E header \in AuthorizationHeaders :
        auth' = [auth EXCEPT !.request =
                   [token |-> header,
                    valid |-> IsDefined(header) /\ validateToken(header[1]),
                    status |-> IF authenticateToken(header) THEN "200" ELSE "401",
                    transport |-> authenticateToken(header)]]
  /\ UNCHANGED authOthers

(* main.ts, app.get("/mcp/sse", ...): no middleware in front of the       *)
(* handler                                                                 *)
Main_McpSse ==
  /\ auth.server = "main"
  /\ \E header \in AuthorizationHeaders :
        auth' = [auth EXCEPT !.request =
                   [token |-> header,
                    valid |-> IsDefined(header) /\ validateToken(header[1]),
                    status |-> "200", transport |-> TRUE]]
  /\ UNCHANGED authOthers

(***************************************************************************)
(* The OAuth handlers: "part_007" is oauthHandlers of src/unnamed/part_007 *)
(* (client secret or PKCE), "part_008" oauthHandlers of                    *)
(* src/unnamed/part_008 (client secret).  A code is named by the order in  *)
(* which crypto.randomBytes produced it; code 0 is a string the authorize  *)
(* endpoint never produced.  Time is counted in code lifetimes.            *)
(***************************************************************************)
MaxCodes == 2

MaxTime == 2

CodeLifetime == 1

Codes == 1..MaxCodes

Verifiers == {"none", "wrong", "right"}

NoTokenRequest ==
  [code |-> 0, status |-> "none", error |-> "none", clientPassed |-> FALSE,
   issued |-> FALSE, used |-> FALSE, expired |-> FALSE]

(* codes is the Map of the module; issued and exchanges are the history   *)
(* of the authorize endpoint and of the successful exchanges               *)
OAuth_new(server) ==
  [server |-> server, now |-> 0, codes |-> EmptyMap, issued |-> {},
   exchanges |-> [c \in Codes |-> 0], request |-> NoTokenRequest]

oauthOthers == <<source, impl, svcA, svcB, fnMod, initCalls, result, sse, auth,
                 calls>>

(* Date.now() moves on *)
OAuth_Tick ==
  /\ oauth.now < MaxTime
  /\ oauth' = [oauth EXCEPT !.now = @ + 1]
  /\ UNCHANGED oauthOthers

(* authorize with a valid client: a new code is stored with its expiry    *)
(* (and, in part_007, the code challenge of the request)                   *)
OAuth_Authorize ==
  /\ \E pkce \in BOOLEAN :
        LET code == Cardinality(oauth.issued) + 1
        IN  /\ code \in Codes
            /\ pkce => oauth.server = "part_007"
            /\ oauth' = [oauth EXCEPT
                           !.issued = @ \cup {code},
                           !.codes = MapSet(@, code,
                                       [expires |-> oauth.now + CodeLifetime,
                                        pkce |-> pkce])]
  /\ UNCHANGED oauthOthers

(* the checks of the token handler, in its order; "ok" when all pass *)
OAuth_tokenError(server, codes, now, code, clientOk, secretOk, verifier) ==
  LET known == code \in DOMAIN codes
      live == known /\ ~(now > codes[code].expires)
  IN  IF server = "part_008"
      THEN IF ~(clientOk /\ secretOk) THEN "invalid_client"
           ELSE IF ~live THEN "invalid_grant"
           ELSE "ok"
      ELSE IF ~clientOk THEN "invalid_client"
           ELSE IF ~live THEN "invalid_grant"
           ELSE IF codes[code].pkce
           THEN IF verifier = "none" THEN "invalid_request"
                ELSE IF verifier = "wrong" THEN "invalid_grant"
                ELSE "ok"
           ELSE IF ~secretOk THEN "invalid_client"
           ELSE "ok"

(* OAuth_codesAfterExchange that keeps the code *)
OAuth_codesAfterExchange_kept(codes, code) == codes

(* codes.delete(code) *)
OAuth_codesAfterExchange(codes, code) ==
  [c \in DOMAIN codes \ {code} |-> codes[c]]

(* token with grant_type authorization_code, a code and a client_id *)
OAuth_Token ==
  /\ \E code \in 0..MaxCodes, clientOk \in BOOLEAN, secretOk \in BOOLEAN,
        verifier \in Verifiers :
        LET error == OAuth_tokenError(oauth.server, oauth.codes, oauth.now,
                                      code, clientOk, secretOk, verifier)
            request ==
              [code |-> code,
               status |-> IF error = "ok" THEN "200"
                          ELSE IF error = "invalid_client" THEN "401" ELSE "400",
               error |-> error,
               clientPassed |->
                  /\ clientOk
                  /\ oauth.server = "part_008" => secretOk,
               issued |-> code \in oauth.issued,
               used |-> code \in Codes /\ oauth.exchanges[code] > 0,
               expired |-> /\ code \in DOMAIN oauth.codes
                           /\ oauth.now > oauth.codes[code].expires]
        IN  IF error = "ok"
            THEN oauth' = [oauth EXCEPT
                             !.codes = OAuth_codesAfterExchange(@, code),
                             !.exchanges[code] = @ + 1,
                             !.request = request]
            ELSE oauth' = [oauth EXCEPT !.request = request]
  /\ UNCHANGED oauthOthers

(* revoke: the token is deleted from tokens and from codes *)
OAuth_Revoke ==
  /\ \E token \in DOMAIN oauth.codes :
        oauth' = [oauth EXCEPT !.codes = OAuth_codesAfterExchange(@, token)]
  /\ UNCHANGED oauthOthers

Init ==
  /\ source \in Sources
  /\ impl \in {"A", "B", "F"}
  /\ svcA = A_new
  /\ svcB = B_new
  /\ fnMod = F_new
  /\ initCalls = 0
  /\ result = NoResult
  /\ sse = SSE_new("index")
  /\ auth = AUTH_new("main")
  /\ oauth = OAuth_new("part_007")
  /\ calls = <<>>

Next ==
  \/ A_Initialize
  \/ A_SearchExercises
  \/ A_GetExerciseById
  \/ A_FilterExercisesByEquipment
  \/ A_GetExercisesByCategory
  \/ A_GetAllExercises
  \/ A_FindExerciseAlternatives
  \/ A_ValidateExerciseKeys
  \/ A_GetKeys
  \/ A_GetStats
  \/ B_Initialize
  \/ B_SearchExercises
  \/ B_GetAllExercises
  \/ B_GetExerciseById
  \/ B_FilterByEquipment
  \/ B_GetByCategory
  \/ B_FindAlternatives
  \/ B_ValidateExerciseIds
  \/ B_GetKeys
  \/ B_GetExerciseStats
  \/ F_LoadExercises
  \/ F_SearchExercises
  \/ F_ResetPerformanceMetrics
  \/ F_GetExerciseById
  \/ F_FilterByEquipment
  \/ F_FilterByCategory
  \/ F_FindAlternatives
  \/ F_ValidateExerciseIds
  \/ F_GetKeys
  \/ Deliver

Spec == Init /\ [][Next]_vars

(* the SSE servers alone, over an unloaded catalog *)
SseInit ==
  /\ source = <<>>
  /\ impl = "A"
  /\ svcA = A_new
  /\ svcB = B_new
  /\ fnMod = F_new
  /\ initCalls = 0
  /\ result = NoResult
  /\ sse \in {SSE_new("index"), SSE_new("main")}
  /\ auth = AUTH_new("main")
  /\ oauth = OAuth_new("part_007")
  /\ calls = <<>>

SseNext ==
  \/ Index_SseOpen
  \/ Index_SseClose
  \/ Index_PostMessage
  \/ Main_SseOpen
  \/ Main_SseConnected
  \/ Main_SseConnectFailed
  \/ Main_SseError
  \/ Main_SseClose
  \/ Main_PostMessage
  \/ Main_ExpirePending

SseSpec == SseInit /\ [][SseNext]_vars

(* the interval timer of main.ts keeps firing *)
SseLive == SseSpec /\ WF_vars(Main_ExpirePending)

(* the token store and the protected endpoint alone *)
AuthInit ==
  /\ source = <<>>
  /\ impl = "A"
  /\ svcA = A_new
  /\ svcB = B_new
  /\ fnMod = F_new
  /\ initCalls = 0
  /\ result = NoResult
  /\ sse = SSE_new("index")
  /\ auth \in {AUTH_new("part_005"), AUTH_new("main")}
  /\ oauth = OAuth_new("part_007")
  /\ calls = <<>>

AuthNext ==
  \/ Auth_IssueToken
  \/ Auth_Expire
  \/ Auth_CleanupExpiredTokens
  \/ Part005_McpSse
  \/ Main_McpSse

AuthSpec == AuthInit /\ [][AuthNext]_vars

(* the OAuth handlers alone *)
OAuthInit ==
  /\ source = <<>>
  /\ impl = "A"
  /\ svcA = A_new
  /\ svcB = B_new
  /\ fnMod = F_new
  /\ initCalls = 0
  /\ result = NoResult
  /\ sse = SSE_new("index")
  /\ auth = AUTH_new("main")
  /\ oauth \in {OAuth_new("part_007"), OAuth_new("part_008")}
  /\ calls = <<>>

OAuthNext ==
  \/ OAuth_Tick
  \/ OAuth_Authorize
  \/ OAuth_Token
  \/ OAuth_Revoke

OAuthSpec == OAuthInit /\ [][OAuthNext]_vars

(* the performance metrics of the function module, over long runs of      *)
(* searchExercises on the module as constructed                            *)
PerfInit ==
  /\ source = <<>>
  /\ impl = "F"
  /\ svcA = A_new
  /\ svcB = B_new
  /\ fnMod = F_new
  /\ initCalls = 0
  /\ result = NoResult
  /\ sse = SSE_new("index")
  /\ auth = AUTH_new("main")
  /\ oauth = OAuth_new("part_007")
  /\ calls = <<>>

PerfNext ==
  \/ F_SearchExercisesTimed
  \/ F_ResetPerformanceMetrics
  \/ Deliver

PerfSpec == PerfInit /\ [][PerfNext]_vars

(* the ranking of the two services, over catalogs of valid records with   *)
(* unique ids whose fields collect different bonuses for the query "b"     *)
q1 == Rec("u1", sb, sa, sa, sa, sa, <<sa>>, <<>>, <<sa>>)

q2 == Rec("u2", sab, sb, sb, sa, sa, <<sb>>, <<>>, <<sb>>)

q3 == Rec("u3", sa, sb, sa, sa, sa, <<sa>>, <<sb>>, <<sa>>)

q4 == Rec("u9", sB, sa, sb, sa, sa, <<sa>>, <<>>, <<sab>>)

RankPool == {q1, q2, q3, q4}

RankSources ==
  {s \in SeqsUpTo(RankPool, MaxLen) : \A i, j \in DOMAIN s : s[i] = s[j] => i = j}

RankInit ==
  /\ source \in RankSources
  /\ impl \in {"A", "B"}
  /\ svcA = A_new
  /\ svcB = B_new
  /\ fnMod = F_new
  /\ initCalls = 0
  /\ result = NoResult
  /\ sse = SSE_new("index")
  /\ auth = AUTH_new("main")
  /\ oauth = OAuth_new("part_007")
  /\ calls = <<>>

RankNext ==
  \/ A_Initialize
  \/ A_SearchExercises
  \/ B_Initialize
  \/ B_SearchExercises
  \/ Deliver

RankSpec == RankInit /\ [][RankNext]_vars

(***************************************************************************)
(* Properties                                                              *)
(***************************************************************************)
Catalog ==
  CASE impl = "A" -> svcA.exercises
    [] impl = "B" -> svcB.exercises
    [] OTHER -> fnMod.exerciseData

Loaded ==
  CASE impl = "A" -> svcA.initialized
    [] impl = "B" -> svcB.isInitialized
    [] OTHER -> fnMod.isDataLoaded

InCatalog(id) == \E i \in DOMAIN Catalog : Catalog[i].id = id

ValidRecords == SelectSeq(source, ExerciseSchemaOk)

AlternativesOps == {"findExerciseAlternatives", "findAlternatives"}

ValidateOps == {"validateExerciseKeys", "validateExerciseIds"}

LoadOps == {"initialize", "loadExercises"}

(* C4: the alternatives returned for a reference exercise E of the         *)
(* catalog never contain an exercise whose id is E, whatever the target    *)
(* muscles, the equipment and the limit.                                   *)
C4_AlternativesExcludeSelf ==
  (result.op \in AlternativesOps /\ result.status = "ok")
    => \A i \in DOMAIN result.exercises :
          result.exercises[i].id # result.args.id

(* a reference of the catalog whose id other records share, and a          *)
(* non-empty list of alternatives                                          *)
C4_Witness ==
  /\ result.op \in AlternativesOps
  /\ result.status = "ok"
  /\ Cardinality({i \in DOMAIN Catalog : Catalog[i].id = result.args.id}) >= 2
  /\ Len(result.exercises) >= 1

(* C5: the validator splits the input ids into valid and invalid: the two *)
(* lists cover the input, share no id, valid ids are in the catalog and    *)
(* invalid ids are not.                                                    *)
C5_ValidatorPartition ==
  (result.op \in ValidateOps /\ result.status = "ok")
    => /\ Range(result.valid) \cup Range(result.invalid) = Range(result.args.ids)
       /\ Range(result.valid) \cap Range(result.invalid) = {}
       /\ \A id \in Range(result.valid) : InCatalog(id)
       /\ \A id \in Range(result.invalid) : ~InCatalog(id)

C5_Witness ==
  /\ result.op \in ValidateOps
  /\ result.status = "ok"
  /\ Len(result.valid) >= 1
  /\ Len(result.invalid) >= 1

A_indexes ==
  {svcA.categoryIndex, svcA.equipmentIndex, svcA.muscleIndex,
   svcA.bodyPartIndex, svcA.appleCategoryIndex}

B_indexes ==
  {svcB.categoryIndex, svcB.equipmentIndex, svcB.primaryMuscleIndex,
   svcB.secondaryMuscleIndex, svcB.bodyPartIndex, svcB.appleCategoryIndex}

(* C6: whatever a secondary index lists is in the catalog store and       *)
(* getExerciseById finds it.                                               *)
C6_NoDanglingIndexEntry ==
  /\ \A ix \in A_indexes : \A k \in DOMAIN ix : \A e \in Range(ix[k]) :
        /\ e \in Range(svcA.exercises)
        /\ A_getExerciseById(e.id).status = "ok"
  /\ \A ix \in B_indexes : \A k \in DOMAIN ix : \A id \in Range(ix[k]) :
        /\ \E i \in DOMAIN svcB.exercises : svcB.exercises[i].id = id
        /\ B_getExerciseById(id).exercises # <<>>

(* indexes built over a source that had a record to skip *)
C6_Witness ==
  /\ Loaded
  /\ impl = "A"
  /\ Len(source) > Len(svcA.exercises)
  /\ \E ix \in A_indexes : DOMAIN ix # {}

CatalogState ==
  <<svcA, svcB, fnMod.exerciseData, fnMod.isDataLoaded>>

(* C7: a step that serves a query leaves the catalog, its records and     *)
(* every index as they were.                                               *)
C7_QueriesArePureReads ==
  [][(result' # NoResult /\ result'.op \notin LoadOps)
       => CatalogState' = CatalogState]_vars

(* a search whose ranking moved a later catalog entry in front of an       *)
(* earlier one                                                             *)
C7_Witness ==
  /\ result.op = "searchExercises"
  /\ result.status = "ok"
  /\ Len(result.exercises) >= 2
  /\ \E i, j \in DOMAIN Catalog :
        /\ i < j
        /\ Catalog[j] = result.exercises[1]
        /\ Catalog[i] = result.exercises[2]
        /\ Catalog[i] # Catalog[j]

Flag == IF impl = "A" THEN svcA.initialized ELSE svcB.isInitialized

B_listed(index, key, id) ==
  toLowerCase(key) \in DOMAIN index /\ id \in Range(index[toLowerCase(key)])

(* the catalog is loaded and every index is built *)
LoadedAndIndexed ==
  IF impl = "A"
  THEN /\ svcA.exercises = ValidRecords
       /\ \A e \in Range(svcA.exercises) :
             /\ e \in Range(MapGet(svcA.categoryIndex, e.category))
             /\ e \in Range(MapGet(svcA.equipmentIndex, e.equipment))
             /\ e \in Range(MapGet(svcA.bodyPartIndex, e.bodyPart))
             /\ e \in Range(MapGet(svcA.appleCategoryIndex, e.appleCategory))
             /\ \A m \in Range(AllMuscles(e)) :
                   e \in Range(MapGet(svcA.muscleIndex, m))
  ELSE /\ svcB.exercises = source
       /\ \A e \in Range(svcB.exercises) :
             /\ e.id \in DOMAIN svcB.exerciseIndex
             /\ B_listed(svcB.categoryIndex, e.category, e.id)
             /\ B_listed(svcB.equipmentIndex, e.equipment, e.id)
             /\ B_listed(svcB.bodyPartIndex, e.bodyPart, e.id)
             /\ B_listed(svcB.appleCategoryIndex, e.appleCategory, e.id)
             /\ \A m \in Range(e.primaryMuscles) :
                   B_listed(svcB.primaryMuscleIndex, m, e.id)
             /\ \A m \in Range(e.secondaryMuscles) :
                   B_listed(svcB.secondaryMuscleIndex, m, e.id)

C8_FlagStep ==
  impl \in {"A", "B"} =>
     /\ (~Flag /\ Flag') => (result'.op = "initialize" /\ result'.status = "ok")
     /\ (result'.op = "initialize" /\ result'.status = "error") => Flag' = Flag

C8_FlagState ==
  impl \in {"A", "B"} =>
     /\ Flag => LoadedAndIndexed
     /\ (result.op \notin LoadOps \cup {"none"} /\ ~Flag)
           => (result.status = "error" /\ result.error = "NotInitialized")

(* C8: for the two service classes, the initialized flag is set only by a *)
(* successful initialize and then the catalog is loaded and indexed; a     *)
(* query made while the flag is false fails; a failing initialize leaves   *)
(* the flag as it was (false, when it was false).                          *)
C8_NoQueryBeforeInitialized == []C8_FlagState /\ [][C8_FlagStep]_vars

(* a query refused after an initialize call that failed *)
C8_Witness ==
  /\ impl \in {"A", "B"}
  /\ initCalls >= 1
  /\ ~Flag
  /\ result.op = "searchExercises"
  /\ result.error = "NotInitialized"

Search(p) == IF impl = "A" THEN A_searchExercises(p) ELSE B_searchExercises(p)

(* the result sequence of a search before pagination *)
FullSequence(p) ==
  IF impl = "A" THEN A_sortedExercises(SearchParamsSchemaParse(p))
  ELSE B_searchResults(p)

(* the pages at offsets k*l, (k+1)*l, ... until hasMore is false *)
RECURSIVE ConcatPages(_, _, _)
ConcatPages(p, l, k) ==
  LET page == Search([p EXCEPT !.limit = Some(l), !.offset = Some(k * l)])
  IN  IF page.status # "ok" THEN [ok |-> FALSE, items |-> <<>>]
      ELSE IF page.hasMore /\ k <= MaxLen + 1
      THEN LET rest == ConcatPages(p, l, k + 1)
           IN  [ok |-> rest.ok, items |-> page.exercises \o rest.items]
      ELSE [ok |-> TRUE, items |-> page.exercises]

NoDuplicates(s) == \A i, j \in DOMAIN s : s[i] = s[j] => i = j

(* C1: for a loaded service, a filter and a limit >= 1, the pages of       *)
(* searchExercises at offsets 0, limit, 2*limit, ... put one after the     *)
(* other are the full result sequence of the filter: every matching id     *)
(* once, in the same order.                                                *)
C1_PaginationConsistency ==
  ( /\ impl \in {"A", "B"}
    /\ Loaded
    /\ result.op = "searchExercises"
    /\ result.args.params.offset = Undefined
    /\ IsDefined(result.args.params.limit)
    /\ result.args.params.limit[1] >= 1 )
    => LET p == result.args.params
           pages == ConcatPages(p, p.limit[1], 0)
       IN  /\ pages.ok
           /\ pages.items = FullSequence(p)
           /\ NoDuplicates(Ids(pages.items))

(* C2: searchExercises with an empty filter and the default pagination    *)
(* returns the first 20 catalog entries in catalog order and reports the   *)
(* catalog size as total.                                                  *)
C2_EmptyFilterIdentity ==
  (Loaded /\ result.op = "searchExercises" /\ result.args.params = EmptyParams)
    => /\ result.status = "ok"
       /\ result.exercises = slice(Catalog, 0, DefaultLimit)
       /\ impl \in {"A", "B"} => result.total = Len(Catalog)

PaginatedOps ==
  {"searchExercises", "filterExercisesByEquipment", "getExercisesByCategory",
   "getAllExercises"}

(* the same call of implementation A with offset 0 and the largest limit *)
A_unpaginated(r) ==
  CASE r.op = "searchExercises" ->
         A_searchExercises([r.args.params EXCEPT !.limit = Some(MaxLimit),
                                                 !.offset = Some(0)])
    [] r.op = "filterExercisesByEquipment" ->
         A_filterExercisesByEquipment(r.args.key, Some(MaxLimit), Some(0))
    [] r.op = "getExercisesByCategory" ->
         A_getExercisesByCategory(r.args.key, Some(MaxLimit), Some(0))
    [] r.op = "getAllExercises" -> A_getAllExercises(Some(MaxLimit), Some(0))

(* C3, for the service of part_009 (its pagination is in the sources): a  *)
(* paginated result reports as total the number of exercises that match    *)
(* before pagination, holds at most limit exercises, and has hasMore true  *)
(* exactly when offset + returned < total, at every offset >= 0.           *)
C3_PaginatedResult ==
  (impl = "A" /\ result.op \in PaginatedOps /\ result.status = "ok"
     /\ result.offset >= 0)
    => /\ result.total = Len(A_unpaginated(result).exercises)
       /\ Len(result.exercises) <= result.limit
       /\ result.hasMore <=> (result.offset + Len(result.exercises) < result.total)

(* C9: the load of a readable, parsable source skips the records that     *)
(* fail validation and keeps the valid ones in source order; it fails      *)
(* exactly when no record is valid, so a loaded catalog is never empty.    *)
C9_LoadSkipsInvalidRecords ==
  (result.op \in LoadOps /\ result.args.readOk)
    => /\ (result.status = "error") <=> (ValidRecords = <<>>)
       /\ result.status = "ok" => (Catalog = ValidRecords /\ Catalog # <<>>)
       /\ (impl = "A" /\ result.status = "error") => result.error = "DataLoadError"

NotFoundErrors == {"ExerciseNotFoundError", "NotFound"}

(* C10: on a loaded catalog findAlternatives reports NotFound exactly     *)
(* when the reference id is absent; with the reference present it returns  *)
(* a list, empty when no candidate passes the filters, and no error.       *)
C10_NotFoundIffAbsent ==
  (Loaded /\ result.op \in AlternativesOps)
    => /\ (result.status = "error") <=> ~InCatalog(result.args.id)
       /\ result.status = "error" => result.error \in NotFoundErrors

(* the reference exercise as the service resolves it *)
Reference(id) ==
  IF impl = "A" THEN A_getExerciseById(id).exercises[1]
  ELSE B_getExerciseById(id).exercises[1]

(* the target muscles of a findAlternatives call: the supplied list, or   *)
(* the primary muscles of the reference when the argument is omitted       *)
TargetMuscles(args) ==
  IF IsDefined(args.targetMuscles) THEN args.targetMuscles[1]
  ELSE Reference(args.id).primaryMuscles

HasMuscle(ex, muscle) ==
  \E m \in Range(AllMuscles(ex)) : EqIgnoreCase(m, muscle)

(* C11: every exercise returned by findAlternatives of the two service    *)
(* classes has one of the target muscles among its primary or secondary    *)
(* muscles; the target muscles are the supplied list or, when omitted,     *)
(* the primary muscles of the reference.                                   *)
C11_AlternativesShareTargetMuscle ==
  (impl \in {"A", "B"} /\ result.op \in AlternativesOps /\ result.status = "ok")
    => \A i \in DOMAIN result.exercises :
          \E t \in Range(TargetMuscles(result.args)) :
             HasMuscle(result.exercises[i], t)

(* C12: with an equipment filter, every exercise returned by               *)
(* findAlternatives of the two service classes has that equipment,         *)
(* ignoring case; containing the filter as a proper substring is not       *)
(* enough.                                                                 *)
C12_AlternativesEquipmentExact ==
  (impl \in {"A", "B"} /\ result.op \in AlternativesOps /\ result.status = "ok"
     /\ result.args.key # <<>>)
    => \A i \in DOMAIN result.exercises :
          EqIgnoreCase(result.exercises[i].equipment, result.args.key)

(* the candidates that remain after the filters of the service, in catalog *)
(* order                                                                   *)
Remaining(args) ==
  LET ref == Reference(args.id)
      tm == args.targetMuscles
  IN  IF impl = "A"
      THEN SelectSeq(svcA.exercises,
                     LAMBDA ex : A_isCandidate(ex, args.id,
                        IF IsDefined(tm) /\ Len(tm[1]) > 0 THEN tm[1]
                        ELSE ref.primaryMuscles, args.key))
      ELSE SelectSeq(svcB.exercises,
                     LAMBDA ex : B_isAlternative(ex, args.id,
                        IF IsDefined(tm) THEN tm[1] ELSE ref.primaryMuscles,
                        args.key))

(* returned lists, in this order, the candidates at the positions pick of *)
(* remaining: scores do not increase, equal scores keep catalog order, and *)
(* no candidate left out scores higher than one that is listed             *)
IsTopByScore(returned, remaining, ref, pick) ==
  LET score(j) == calculateExerciseSimilarity(ref, remaining[j])
  IN  /\ \A k \in DOMAIN returned : returned[k] = remaining[pick[k]]
      /\ \A k, l \in DOMAIN returned : k < l =>
            /\ pick[k] # pick[l]
            /\ score(pick[k]) >= score(pick[l])
            /\ score(pick[k]) = score(pick[l]) => pick[k] < pick[l]
      /\ \A j \in DOMAIN remaining : \A k \in DOMAIN returned :
            (\A l \in DOMAIN returned : pick[l] # j) => score(j) <= score(pick[k])

C14_ValidatorKeepsOrder ==
  (Loaded /\ result.op \in ValidateOps)
    => /\ result.status = "ok"
       /\ result.valid = SelectSeq(result.args.ids,
                                   LAMBDA id : id \in Range(result.valid))
       /\ result.invalid = SelectSeq(result.args.ids,
                                     LAMBDA id : id \in Range(result.invalid))
       /\ \A i \in DOMAIN result.args.ids :
             ~IsUUID(result.args.ids[i])
                => result.args.ids[i] \in Range(result.invalid)

B_PaginatedOps ==
  {"searchExercises", "filterByEquipment", "getByCategory", "getAllExercises"}

(* C15: a search or paginated filter of the two service classes called    *)
(* with a limit outside 1..100 does not throw: it returns a normal page    *)
(* whose limit is clamped into the range, with at most 100 exercises.      *)
C15_LimitClamped ==
  ( /\ impl \in {"A", "B"}
    /\ Loaded
    /\ result.op \in PaginatedOps \cup B_PaginatedOps
    /\ IsDefined(result.args.params.limit)
    /\ result.args.params.limit[1] \notin 1..MaxLimit )
    => /\ result.status = "ok"
       /\ result.limit \in 1..MaxLimit
       /\ Len(result.exercises) <= MaxLimit

(* the first record of the source that carries the id *)
FirstInSource(id) ==
  source[CHOOSE i \in DOMAIN source :
           /\ source[i].id = id
           /\ \A j \in DOMAIN source : source[j].id = id => i <= j]

GetById(id) ==
  IF impl = "A" THEN A_getExerciseById(id) ELSE B_getExerciseById(id)

(* C18: in a loaded catalog of the two service classes every id occurs    *)
(* once, its record is the first one of the source with that id, and       *)
(* getExerciseById returns that record.                                    *)
C18_CatalogIdsUnique ==
  (impl \in {"A", "B"} /\ Loaded)
    => /\ NoDuplicates(Ids(Catalog))
       /\ \A i \in DOMAIN Catalog :
             /\ Catalog[i] = FirstInSource(Catalog[i].id)
             /\ GetById(Catalog[i].id).exercises = <<FirstInSource(Catalog[i].id)>>

(* the service of part_010 after a single build over its catalog *)
B_builtOnce ==
  [B_buildIndexes([B_new EXCEPT !.exercises = svcB.exercises], svcB.exercises)
     EXCEPT !.isInitialized = TRUE]

(* C19: however often initialize has run on a service, every index is     *)
(* what a single build over the catalog produces: a rebuild clears the     *)
(* maps first and lists no id more often under a key.                      *)
C19_RebuildIdempotent ==
  /\ (impl = "A" /\ svcA.initialized) => svcA = A_initialized(svcA.exercises)
  /\ (impl = "B" /\ svcB.isInitialized) => svcB = B_builtOnce

FilterFields ==
  {"equipment", "category", "bodyPart", "appleCategory", "primaryMuscles",
   "secondaryMuscles", "query"}

(* the filter of a search, without its pagination *)
FilterOf(p) == [p EXCEPT !.limit = Undefined, !.offset = Undefined]

(* C20: a filter with one more field supplied matches a subset of the ids *)
(* the filter without that field matches, and its total is not larger.     *)
C20_AdditionalFilterNarrows ==
  (impl \in {"A", "B"} /\ Loaded /\ result.op = "searchExercises")
    => \A f \in FilterFields :
          LET with == FilterOf(result.args.params)
              without == [with EXCEPT ![f] = <<>>]
          IN  with[f] # <<>> =>
                /\ Range(Ids(FullSequence(with))) \subseteq
                     Range(Ids(FullSequence(without)))
                /\ Len(FullSequence(with)) <= Len(FullSequence(without))

(* a second field removed part of what the first field alone matched *)
C20_Witness ==
  /\ impl \in {"A", "B"}
  /\ Loaded
  /\ result.op = "searchExercises"
  /\ result.status = "ok"
  /\ \E f, g \in FilterFields :
        LET with == FilterOf(result.args.params)
            without == [with EXCEPT ![f] = <<>>]
        IN  /\ f # g
            /\ with[f] # <<>>
            /\ with[g] # <<>>
            /\ Len(FullSequence(with)) >= 1
            /\ Len(FullSequence(with)) < Len(FullSequence(without))

(* C16: a message posted for a session whose SSE connection is open is    *)
(* handled by the transport of that session, whatever other connections    *)
(* were opened or closed before.                                           *)
C16_SessionKeepsItsTransport ==
  (sse.post.status # "none" /\ sse.post.open)
    => (sse.post.status = "handled" /\ sse.post.own)

(* C17: a GET /mcp/sse without a valid access token (issued by the token  *)
(* endpoint, still stored, not expired) is answered 401 and creates no     *)
(* transport.                                                              *)
C17_McpSseRequiresToken ==
  (auth.request.status # "none" /\ ~auth.request.valid)
    => (auth.request.status = "401" /\ ~auth.request.transport)

FieldFilters == {"equipment", "category", "bodyPart", "appleCategory"}

(* the catalog a search reads: the service of part_010 hands out the      *)
(* exercise its exerciseIndex holds for an id                              *)
Searched == IF impl = "B" THEN B_lookup(SetOf(Ids(svcB.exercises))) ELSE Catalog

(* C21: searchExercises with a field filter (equipment, category,         *)
(* bodyPart, appleCategory) returns only exercises whose field equals the  *)
(* filter value ignoring case, never one whose field merely contains it,   *)
(* and with field filters alone it returns all of them.                    *)
C21_FieldFilterExact ==
  (Loaded /\ result.op = "searchExercises" /\ result.status = "ok")
    => LET p == result.args.params
       IN  /\ \A f \in FieldFilters : \A i \in DOMAIN result.exercises :
                p[f] # <<>> => EqIgnoreCase(result.exercises[i][f], p[f])
           /\ ( /\ impl \in {"A", "B"}
                /\ p.primaryMuscles = <<>> /\ p.secondaryMuscles = <<>>
                /\ p.query = <<>> )
                => Range(FullSequence(p)) =
                     {ex \in Range(Searched) :
                        \A f \in FieldFilters :
                           p[f] # <<>> => EqIgnoreCase(ex[f], p[f])}

MuscleFilters == {"primaryMuscles", "secondaryMuscles"}

(* some requested muscle is a case-insensitive substring of some entry *)
MuscleMatch(ex, f, requested) ==
  \E muscle \in Range(requested) :
     \E entry \in Range(ex[f]) : IncludesIgnoreCase(entry, muscle)

(* C22: with a muscle filter supplied, the search matches exactly the     *)
(* exercises that the rest of the filter matches and that have a muscle    *)
(* entry containing one of the requested muscles, ignoring case.           *)
C22_MuscleFilterSubstring ==
  (impl \in {"A", "B"} /\ Loaded /\ result.op = "searchExercises"
     /\ result.status = "ok")
    => \A f \in MuscleFilters :
          LET with == FilterOf(result.args.params)
              without == [with EXCEPT ![f] = <<>>]
          IN  with[f] # <<>> =>
                Range(FullSequence(with)) =
                  {ex \in Range(FullSequence(without)) :
                     MuscleMatch(ex, f, with[f])}

(* the candidates of a search: what its filter matches before the query   *)
(* is looked at                                                            *)
Candidates(p) == FullSequence([FilterOf(p) EXCEPT !.query = <<>>])

Score(ex, query) ==
  IF impl = "A" THEN calculateRelevanceScore(ex, query)
  ELSE scoreExerciseRelevance(ex, query)

Position(ex) == CHOOSE i \in DOMAIN Catalog : Catalog[i] = ex

(* C24: the result sequence of a search is in non-increasing order of     *)
(* relevance score, and results of equal score are in catalog insertion    *)
(* order.                                                                  *)
C24_SortedByScoreStable ==
  (impl \in {"A", "B"} /\ Loaded /\ result.op = "searchExercises"
     /\ result.status = "ok")
    => LET p == FilterOf(result.args.params)
           s == FullSequence(p)
       IN  \A i, j \in DOMAIN s :
              i < j =>
                /\ Score(s[i], p.query) >= Score(s[j], p.query)
                /\ Score(s[i], p.query) = Score(s[j], p.query)
                     => Position(s[i]) < Position(s[j])

(* C25: in the result sequence of a search with a query, every result     *)
(* whose name equals the query ignoring case comes before every result     *)
(* whose name does not.                                                    *)
C25_ExactNameRanksHighest ==
  (impl \in {"A", "B"} /\ Loaded /\ result.op = "searchExercises"
     /\ result.status = "ok" /\ result.args.params.query # <<>>)
    => LET p == FilterOf(result.args.params)
           s == FullSequence(p)
       IN  \A i, j \in DOMAIN s :
              (EqIgnoreCase(s[i].name, p.query) /\ ~EqIgnoreCase(s[j].name, p.query))
                => i < j

EquipmentOps == {"filterExercisesByEquipment", "filterByEquipment"}

CategoryOps == {"getExercisesByCategory", "getByCategory"}

(* the search with the single filter, the limit and the offset of the     *)
(* call r                                                                  *)
SearchTwin(r) ==
  LET field == IF r.op \in EquipmentOps THEN "equipment" ELSE "category"
  IN  Search([EmptyParams EXCEPT ![field] = r.args.key,
                                 !.limit = r.args.params.limit,
                                 !.offset = r.args.params.offset])

(* C26: filterByEquipment(e, limit, offset) answers as                    *)
(* searchExercises({equipment: e, limit, offset}) does on the same         *)
(* service: the same page, total and hasMore; likewise getByCategory and   *)
(* the search by category.                                                 *)
C26_FilterEqualsSearch ==
  (impl \in {"A", "B"} /\ result.op \in EquipmentOps \cup CategoryOps)
    => LET twin == SearchTwin(result)
       IN  /\ result.status = twin.status
           /\ result.exercises = twin.exercises
           /\ result.total = twin.total
           /\ result.hasMore = twin.hasMore

(* C27, the part that holds in every state: a message is answered or      *)
(* handed to a transport at most once, the buffer holds exactly the        *)
(* buffered messages not yet answered, it never holds more than            *)
(* maxPendingMessages entries, and it holds them in the order they were    *)
(* posted, which is the order the loop of lines 553-567 hands them over.   *)
C27_PendingSafe ==
  /\ \A m \in Messages :
        /\ sse.msgs[m].answers <= 1
        /\ (m \in Range(sse.pendingMessages))
             <=> (sse.msgs[m].buffered /\ sse.msgs[m].answers = 0)
  /\ Len(sse.pendingMessages) <= MaxPendingMessages
  /\ \A i, j \in DOMAIN sse.pendingMessages :
        i < j => sse.pendingMessages[i] < sse.pendingMessages[j]

(* C27: every POST /messages request that was buffered is eventually      *)
(* answered exactly once (handed to the transport of a newly established   *)
(* connection, or answered with an error on close, on failure or after the *)
(* timeout): no message stays in the buffer for ever, since the buffer is  *)
(* empty again and again, a message leaves it only by being answered or    *)
(* handed over, once, and the buffer stays within maxPendingMessages.      *)
C27_BufferedEventuallyAnswered ==
  /\ []C27_PendingSafe
  /\ []<>(sse.pendingMessages = <<>>)

(* two buffered messages were handed to the transport of a connection     *)
(* established later, a third was answered 503 by the full buffer          *)
C27_Witness ==
  /\ sse.server = "main"
  /\ sse.flushed = 2
  /\ sse.pendingMessages = <<>>
  /\ \A m \in 1..2 : sse.msgs[m].buffered /\ sse.msgs[m].answers = 1
  /\ sse.post.status = "503"

(* the connections of main.ts that were opened and have not ended *)
OpenConnections == {s \in Sessions : sse.conn[s] \in {"connecting", "open"}}

(* C28: connectionCount is the number of SSE connections currently open   *)
(* and is never negative.                                                  *)
C28_ConnectionCountExact ==
  sse.server = "main"
    => /\ sse.connectionCount = Cardinality(OpenConnections)
       /\ sse.connectionCount >= 0

LastOf(s, n) == SubSeq(s, Max(Len(s) - n, 0) + 1, Len(s))

====
